---- MODULE Spec2Model ----
(***************************************************************************)
(* A model of the utrackr BitTorrent tracker engine: the in-memory swarm   *)
(* store (Swarm::validate / select / announce / evict) and the tracker     *)
(* that guards it with a map reader/writer lock and per-swarm locks        *)
(* (Tracker::announce, TrackerInner::announce / scrape / evict).           *)
(*                                                                         *)
(* Request tasks are modelled step by step: one action per stretch of code *)
(* between two lock acquisitions (the .await points of the handlers).  A   *)
(* per-swarm lock is only ever held for a stretch of synchronous code, so  *)
(* each per-swarm critical section is one atomic action; the map read-lock *)
(* is held across awaits and is derived from the tasks' positions.         *)
(***************************************************************************)
EXTENDS Integers, Sequences, FiniteSets, TLC

VARIABLES
    swarms,   \* TrackerInner.swarms: info_hash -> Swarm (a function on the stored hashes)
    config,   \* TrackerInner.config (immutable after construction)
    now,      \* the clock read by Instant::now()
    pc,       \* pc[t]: where request task t stands in its handler
    req,      \* req[t]: the request task t is serving
    result,   \* result[t]: what the handler of task t returned (or has computed so far)
    snap,     \* snap[t]: the swarm task t validated against, as it was under the read-lock
    before,   \* before[t]: the store as it was when task t's call began
    epc,      \* position of the eviction task spawned by start_autosave
    enow,     \* the `now` the running eviction pass captured
    swept,    \* the swarms whose future of the running pass's join_all has completed
    wall,     \* SystemTime: seconds since the UNIX epoch
    dgram,    \* dgram[t]: the datagram the Transaction of task t holds
    sent,     \* sent[t]: the datagrams task t has sent to its client
    held,     \* the latest connect reply sent: its connection id, when and to whom
    debug_assertions,  \* whether the build has debug assertions on
    skipped,  \* the latest outcome of recv_from the receive loop spawned no task for
    px        \* the running call of parse_extensions: its iterator, buffers and parser

\* the state of the UDP front-end
udp == <<wall, dgram, sent, held, debug_assertions, skipped, px>>

vars == <<swarms, config, now, pc, req, result, snap, before, epc, enow, swept,
          wall, dgram, sent, held, debug_assertions, skipped, px>>

---------------------------------------------------------------------------
(* Bounds of the model *)

\* the clock stops advancing here
MaxTime == 1
\* |seeder count| and |leecher count| explored up to here
MaxCount == 3
\* completion count explored up to here
MaxDownloaded == 2
\* SystemTime stops advancing here
MaxWall == 601

---------------------------------------------------------------------------
(* Rust values *)

\* Option<T>
None == <<>>
Some(x) == <<x>>
is_some(o) == o # <<>>
is_none(o) == o = <<>>

\* Result<T, E>
Ok(v) == [ok |-> TRUE, val |-> v, err |-> ""]
Err(e) == [ok |-> FALSE, val |-> <<>>, err |-> e]

\* IpAddr: <<family, host>>
is_ipv4(ip) == ip[1] = 4
is_ipv6(ip) == ip[1] = 6

SocketAddr(ip, port) == [ip |-> ip, port |-> port]

\* `n as usize`: a negative i32 becomes a value above 2^63, larger than any
\* collection; the largest number of the model checker stands for it
AsUsize(n) == IF n < 0 THEN 2147483647 ELSE n

Min(a, b) == IF a < b THEN a ELSE b

\* Instant - Instant: a Duration, zero when the right side is the later one
DurationSince(later, earlier) == IF later >= earlier THEN later - earlier ELSE 0

---------------------------------------------------------------------------
(* Configuration *)

MIN_ALLOWED_PORT == 1024

DefaultConfig ==
    [ interval |-> 900,
      min_interval |-> 60,
      max_interval |-> 1800,
      default_num_want |-> 32,
      max_num_want |-> 128,
      announce_unknown_torrents |-> FALSE,
      unsafe_honor_ip_param |-> FALSE,
      honor_ip_param_if_local |-> FALSE,
      deny_all_ip_changes |-> FALSE ]

---------------------------------------------------------------------------
(* Swarm *)

DefaultSwarm == [complete |-> 0, incomplete |-> 0, downloaded |-> 0, peers |-> <<>>]

PeerOf(announce) ==
    [ downloaded |-> announce.downloaded,
      uploaded |-> announce.uploaded,
      left |-> announce.left,
      addr |-> announce.addr,
      key |-> announce.key,
      announce |-> announce.instant ]

\* HashMap::remove / insert on the peers map
MapRemove(m, k) == [x \in (DOMAIN m) \ {k} |-> m[x]]
MapInsert(m, k, v) == [x \in (DOMAIN m) \cup {k} |-> IF x = k THEN v ELSE m[x]]

\* Swarm::validate as it would be without `|| peer.key.is_none()`
ValidateKeysOnly(swarm, announce) ==
    IF announce.peer_id \in DOMAIN swarm.peers
    THEN LET peer == swarm.peers[announce.peer_id] IN
         IF peer.addr.ip # announce.addr.ip /\ peer.key # announce.key
         THEN Err("IpAddressChanged")
         ELSE Ok(<<>>)
    ELSE Ok(<<>>)

\* Swarm::validate
Validate(swarm, announce) ==
    IF announce.peer_id \in DOMAIN swarm.peers
    THEN LET peer == swarm.peers[announce.peer_id] IN
         IF /\ peer.addr.ip # announce.addr.ip
            /\ (peer.key # announce.key \/ is_none(peer.key))
         THEN Err("IpAddressChanged")
         ELSE Ok(<<>>)
    ELSE Ok(<<>>)

\* the filter closure as it would be without `peer.left != 0 || announce.left != 0`
EligibleSeedersToo(swarm, announce) ==
    { id \in DOMAIN swarm.peers :
        /\ id # announce.peer_id
        /\ (is_ipv6(announce.addr.ip) \/ is_ipv4(swarm.peers[id].addr.ip)) }

\* the filter closure as it would be without the address-family operand
EligibleAnyFamily(swarm, announce) ==
    { id \in DOMAIN swarm.peers :
        /\ id # announce.peer_id
        /\ (swarm.peers[id].left # 0 \/ announce.left # 0) }

\* the filter closure of Swarm::select
Eligible(swarm, announce) ==
    { id \in DOMAIN swarm.peers :
        /\ id # announce.peer_id
        /\ (swarm.peers[id].left # 0 \/ announce.left # 0)
        /\ (is_ipv6(announce.addr.ip) \/ is_ipv4(swarm.peers[id].addr.ip)) }

\* iteration order of the peers map (BTreeMap: ascending peer-id)
InOrder(S) ==
    [ i \in 1 .. Cardinality(S) |->
        CHOOSE x \in S : Cardinality({y \in S : y < x}) = i - 1 ]

\* the replacement loop of IteratorRandom::choose_multiple: item j (1-based)
\* draws k in 0..j-1 and overwrites reservoir slot k when k < amount
RECURSIVE Reservoir(_, _, _, _)
Reservoir(res, items, amount, j) ==
    IF j > Len(items) THEN {res}
    ELSE UNION { Reservoir(IF k < amount THEN [res EXCEPT ![k + 1] = items[j]] ELSE res,
                           items, amount, j + 1) : k \in 0 .. (j - 1) }

\* choose_multiple as it would be if it collected the whole iterator
ChooseAll(items, amount) == {items}

\* IteratorRandom::choose_multiple(rng, amount): every vector it can return
ChooseMultiple(items, amount) ==
    LET taken == Min(amount, Len(items))
    IN IF taken = amount
       THEN Reservoir(SubSeq(items, 1, taken), items, amount, amount + 1)
       ELSE {SubSeq(items, 1, taken)}

\* Swarm::select: every peer list it can return
Select(swarm, announce) ==
    LET ids == InOrder(Eligible(swarm, announce))
        items == [i \in 1 .. Len(ids) |-> [id |-> ids[i], addr |-> swarm.peers[ids[i]].addr]]
    IN ChooseMultiple(items, AsUsize(announce.num_want))

\* Swarm::announce as it would be if a re-announce kept the stored endpoint and key
SwarmAnnounceKeepAddr(swarm, announce) ==
    LET id == announce.peer_id
        stored == id \in DOMAIN swarm.peers
    IN IF announce.event \in {"Stopped", "Paused"}
       THEN IF stored
            THEN [ swarm EXCEPT
                     !.peers = MapRemove(@, id),
                     !.complete = IF swarm.peers[id].left = 0 THEN @ - 1 ELSE @,
                     !.incomplete = IF swarm.peers[id].left = 0 THEN @ ELSE @ - 1 ]
            ELSE swarm
       ELSE LET counted == IF announce.event = "Completed"
                           THEN [swarm EXCEPT !.downloaded = @ + 1]
                           ELSE swarm
            IN IF stored
               THEN [counted EXCEPT !.peers[id] =
                        [PeerOf(announce) EXCEPT !.addr = swarm.peers[id].addr,
                                                 !.key = swarm.peers[id].key]]
               ELSE [ counted EXCEPT
                        !.peers = MapInsert(@, id, PeerOf(announce)),
                        !.complete = IF announce.left = 0 THEN @ + 1 ELSE @,
                        !.incomplete = IF announce.left = 0 THEN @ ELSE @ + 1 ]

\* Swarm::announce as it would be if a stored peer were counted again
SwarmAnnounceCountingAgain(swarm, announce) ==
    LET id == announce.peer_id
        stored == id \in DOMAIN swarm.peers
    IN IF announce.event \in {"Stopped", "Paused"}
       THEN IF stored
            THEN [ swarm EXCEPT
                     !.peers = MapRemove(@, id),
                     !.complete = IF swarm.peers[id].left = 0 THEN @ - 1 ELSE @,
                     !.incomplete = IF swarm.peers[id].left = 0 THEN @ ELSE @ - 1 ]
            ELSE swarm
       ELSE LET counted == IF announce.event = "Completed"
                           THEN [swarm EXCEPT !.downloaded = @ + 1]
                           ELSE swarm
            IN [ counted EXCEPT
                   !.peers = MapInsert(@, id, PeerOf(announce)),
                   !.complete = IF announce.left = 0 THEN @ + 1 ELSE @,
                   !.incomplete = IF announce.left = 0 THEN @ ELSE @ + 1 ]

\* Swarm::announce as it would be if a stop lowered the count of the
\* announced kind without looking for the stored peer
SwarmAnnounceBlindStop(swarm, announce) ==
    LET id == announce.peer_id
        stored == id \in DOMAIN swarm.peers
    IN IF announce.event \in {"Stopped", "Paused"}
       THEN [ swarm EXCEPT
                !.peers = MapRemove(@, id),
                !.complete = IF announce.left = 0 THEN @ - 1 ELSE @,
                !.incomplete = IF announce.left = 0 THEN @ ELSE @ - 1 ]
       ELSE LET counted == IF announce.event = "Completed"
                           THEN [swarm EXCEPT !.downloaded = @ + 1]
                           ELSE swarm
            IN IF stored
               THEN [counted EXCEPT !.peers[id] = PeerOf(announce)]
               ELSE [ counted EXCEPT
                        !.peers = MapInsert(@, id, PeerOf(announce)),
                        !.complete = IF announce.left = 0 THEN @ + 1 ELSE @,
                        !.incomplete = IF announce.left = 0 THEN @ ELSE @ + 1 ]

\* Swarm::announce
SwarmAnnounce(swarm, announce) ==
    LET id == announce.peer_id
        stored == id \in DOMAIN swarm.peers
    IN IF announce.event \in {"Stopped", "Paused"}
       THEN IF stored
            THEN [ swarm EXCEPT
                     !.peers = MapRemove(@, id),
                     !.complete = IF swarm.peers[id].left = 0 THEN @ - 1 ELSE @,
                     !.incomplete = IF swarm.peers[id].left = 0 THEN @ ELSE @ - 1 ]
            ELSE swarm
       ELSE LET counted == IF announce.event = "Completed"
                           THEN [swarm EXCEPT !.downloaded = @ + 1]
                           ELSE swarm
            IN IF stored
               THEN [counted EXCEPT !.peers[id] = PeerOf(announce)]
               ELSE [ counted EXCEPT
                        !.peers = MapInsert(@, id, PeerOf(announce)),
                        !.complete = IF announce.left = 0 THEN @ + 1 ELSE @,
                        !.incomplete = IF announce.left = 0 THEN @ ELSE @ + 1 ]

\* Swarm::evict as it would be if a swarm left without peers were reset
SwarmEvictReset(swarm, at, threshold) ==
    LET kept == { id \in DOMAIN swarm.peers :
                    DurationSince(at, swarm.peers[id].announce) < threshold }
        gone == (DOMAIN swarm.peers) \ kept
    IN IF kept = {}
       THEN [complete |-> 0, incomplete |-> 0, downloaded |-> 0, peers |-> <<>>]
       ELSE [ swarm EXCEPT
                !.peers = [id \in kept |-> swarm.peers[id]],
                !.complete = @ - Cardinality({id \in gone : swarm.peers[id].left = 0}),
                !.incomplete = @ - Cardinality({id \in gone : swarm.peers[id].left # 0}) ]

\* Swarm::evict
SwarmEvict(swarm, at, threshold) ==
    LET kept == { id \in DOMAIN swarm.peers :
                    DurationSince(at, swarm.peers[id].announce) < threshold }
        gone == (DOMAIN swarm.peers) \ kept
    IN [ swarm EXCEPT
           !.peers = [id \in kept |-> swarm.peers[id]],
           !.complete = @ - Cardinality({id \in gone : swarm.peers[id].left = 0}),
           !.incomplete = @ - Cardinality({id \in gone : swarm.peers[id].left # 0}) ]

---------------------------------------------------------------------------
(* Tracker::announce, the part before the store is touched *)

\* the num_want clamp as it would be if a negative num_want became 0
ClampNumWantToZero(cfg, num_want) ==
    IF num_want < 0 THEN 0
    ELSE IF num_want > cfg.max_num_want THEN cfg.max_num_want
    ELSE num_want

\* the num_want clamp
ClampNumWant(cfg, num_want) ==
    IF num_want < 0 THEN cfg.default_num_want
    ELSE IF num_want > cfg.max_num_want THEN cfg.max_num_want
    ELSE num_want

\* the address the announce is validated and stored with
EffectiveAddr(cfg, announce) ==
    IF is_some(announce.ip_param) /\ cfg.unsafe_honor_ip_param
    THEN SocketAddr(announce.ip_param[1], announce.addr.port)
    ELSE announce.addr

\* the announce as Tracker::announce hands it to TrackerInner::announce
Prepared(cfg, announce) ==
    [ announce EXCEPT
        !.num_want = ClampNumWant(cfg, announce.num_want),
        !.addr = EffectiveAddr(cfg, announce) ]

---------------------------------------------------------------------------
(* Tasks and the map lock *)

\* request tasks (one is spawned per datagram); task 0 is the eviction task
Tasks == {1, 2}
Evictor == 0

NoRequest == [op |-> "none"]
NoDatagram == [action |-> "none"]

\* no call of parse_extensions is running
NoParse == [phase |-> "idle"]

\* the tasks holding the read-lock of TrackerInner.swarms
MapReaders ==
    { t \in Tasks : pc[t] \in {"swarm_read", "swarm_write", "scrape"} }
        \cup (IF epc \in {"evicting", "joining"} THEN {Evictor} ELSE {})

\* the counters leave room for one more request (bounds of the model)
Roomy ==
    \A h \in DOMAIN swarms :
        /\ swarms[h].complete \in (1 - MaxCount) .. (MaxCount - 1)
        /\ swarms[h].incomplete \in (1 - MaxCount) .. (MaxCount - 1)
        /\ swarms[h].downloaded < MaxDownloaded

---------------------------------------------------------------------------
(* Announce *)

\* Tracker::announce as it would be if only port 0 were refused
AnnounceRefusingPortZero(t, request) ==
    LET announce == [request EXCEPT !.instant = now] IN
    /\ pc[t] = "idle"
    /\ Roomy
    /\ before' = [before EXCEPT ![t] = swarms]
    /\ snap' = [snap EXCEPT ![t] = None]
    /\ IF announce.addr.port = 0
       THEN /\ req' = [req EXCEPT ![t] = [ op |-> "announce", announce |-> announce,
                                           remote_ip |-> announce.addr.ip,
                                           num_want |-> announce.num_want,
                                           at |-> wall ]]
            /\ result' = [result EXCEPT ![t] = Err("InvalidPort")]
            /\ pc' = [pc EXCEPT ![t] = "done"]
       ELSE /\ req' = [req EXCEPT ![t] = [ op |-> "announce",
                                           announce |-> Prepared(config, announce),
                                           remote_ip |-> announce.addr.ip,
                                           num_want |-> announce.num_want,
                                           at |-> wall ]]
            /\ result' = [result EXCEPT ![t] = Ok(None)]
            /\ pc' = [pc EXCEPT ![t] = "map_read"]
    /\ UNCHANGED <<swarms, config, now, epc, enow, swept>>
    /\ UNCHANGED udp

\* Tracker::announce up to the call of TrackerInner::announce; req[t] keeps
\* the remote ip and the num_want of the request as it came in, and the
\* SystemTime of this first stretch of the task
AnnounceCall(t, request) ==
    LET announce == [request EXCEPT !.instant = now] IN
    /\ pc[t] = "idle"
    /\ before' = [before EXCEPT ![t] = swarms]
    /\ snap' = [snap EXCEPT ![t] = None]
    /\ IF announce.addr.port < MIN_ALLOWED_PORT
       THEN /\ req' = [req EXCEPT ![t] = [ op |-> "announce", announce |-> announce,
                                           remote_ip |-> announce.addr.ip,
                                           num_want |-> announce.num_want,
                                           at |-> wall ]]
            /\ result' = [result EXCEPT ![t] = Err("InvalidPort")]
            /\ pc' = [pc EXCEPT ![t] = "done"]
       ELSE /\ req' = [req EXCEPT ![t] = [ op |-> "announce",
                                           announce |-> Prepared(config, announce),
                                           remote_ip |-> announce.addr.ip,
                                           num_want |-> announce.num_want,
                                           at |-> wall ]]
            /\ result' = [result EXCEPT ![t] = Ok(None)]
            /\ pc' = [pc EXCEPT ![t] = "map_read"]
    /\ UNCHANGED <<swarms, config, now, epc, enow, swept>>
    /\ UNCHANGED udp

\* Tracker::announce is called while the counters leave room for it
Announce(t, request) ==
    /\ Roomy
    /\ AnnounceCall(t, request)

\* the lookup as it would be if unknown torrents were always tracked
LookupSwarmAlwaysTracking(t) ==
    /\ pc[t] = "map_read"
    /\ IF req[t].announce.info_hash \in DOMAIN swarms
       THEN pc' = [pc EXCEPT ![t] = "swarm_read"]
       ELSE pc' = [pc EXCEPT ![t] = "map_write"]
    /\ UNCHANGED <<swarms, config, now, req, result, snap, before, epc, enow, swept>>
    /\ UNCHANGED udp

\* TrackerInner::announce: the map read-lock is acquired and the swarm looked up
LookupSwarm(t) ==
    /\ pc[t] = "map_read"
    /\ IF req[t].announce.info_hash \in DOMAIN swarms
       THEN /\ pc' = [pc EXCEPT ![t] = "swarm_read"]
            /\ UNCHANGED result
       ELSE IF ~config.announce_unknown_torrents
       THEN /\ pc' = [pc EXCEPT ![t] = "done"]
            /\ result' = [result EXCEPT ![t] = Err("TorrentNotFound")]
       ELSE /\ pc' = [pc EXCEPT ![t] = "map_write"]
            /\ UNCHANGED result
    /\ UNCHANGED <<swarms, config, now, req, snap, before, epc, enow, swept>>
    /\ UNCHANGED udp

\* validate and select as they would be if the completion were counted
\* before the identity check
CountThenValidate(t) ==
    LET announce == req[t].announce
        swarm == swarms[announce.info_hash]
        valid == Validate(swarm, announce)
    IN
    /\ pc[t] = "swarm_read"
    /\ snap' = [snap EXCEPT ![t] = Some(swarm)]
    /\ swarms' = IF announce.event = "Completed" /\ ~valid.ok
                 THEN [swarms EXCEPT ![announce.info_hash].downloaded = @ + 1]
                 ELSE swarms
    /\ IF ~valid.ok
       THEN /\ result' = [result EXCEPT ![t] = valid]
            /\ pc' = [pc EXCEPT ![t] = "done"]
       ELSE /\ pc' = [pc EXCEPT ![t] = "swarm_write"]
            /\ IF announce.event \in {"Stopped", "Paused"}
               THEN result' = [result EXCEPT ![t] = Ok(None)]
               ELSE \E peers \in Select(swarm, announce) :
                       result' = [result EXCEPT ![t] =
                                    Ok(Some([ complete |-> swarm.complete,
                                              incomplete |-> swarm.incomplete,
                                              peers |-> peers ]))]
    /\ UNCHANGED <<config, now, req, before, epc, enow, swept>>
    /\ UNCHANGED udp

\* TrackerInner::announce: under the swarm's read-lock, validate and select
ValidateAndSelect(t) ==
    LET announce == req[t].announce
        swarm == swarms[announce.info_hash]
        valid == Validate(swarm, announce)
    IN
    /\ pc[t] = "swarm_read"
    /\ snap' = [snap EXCEPT ![t] = Some(swarm)]
    /\ IF ~valid.ok
       THEN /\ result' = [result EXCEPT ![t] = valid]
            /\ pc' = [pc EXCEPT ![t] = "done"]
       ELSE /\ pc' = [pc EXCEPT ![t] = "swarm_write"]
            /\ IF announce.event \in {"Stopped", "Paused"}
               THEN result' = [result EXCEPT ![t] = Ok(None)]
               ELSE \E peers \in Select(swarm, announce) :
                       result' = [result EXCEPT ![t] =
                                    Ok(Some([ complete |-> swarm.complete,
                                              incomplete |-> swarm.incomplete,
                                              peers |-> peers ]))]
    /\ UNCHANGED <<swarms, config, now, req, before, epc, enow, swept>>
    /\ UNCHANGED udp

\* TrackerInner::announce: under the swarm's write-lock, Swarm::announce
ApplyAnnounce(t) ==
    LET announce == req[t].announce IN
    /\ pc[t] = "swarm_write"
    /\ swarms' = [swarms EXCEPT ![announce.info_hash] = SwarmAnnounce(@, announce)]
    /\ pc' = [pc EXCEPT ![t] = "done"]
    /\ UNCHANGED <<config, now, req, result, snap, before, epc, enow, swept>>
    /\ UNCHANGED udp

\* InsertSwarm as it would be if the fresh swarm were inserted without the
\* announce being applied to it
InsertEmptySwarm(t) ==
    LET announce == req[t].announce IN
    /\ pc[t] = "map_write"
    /\ MapReaders = {}
    /\ swarms' = MapInsert(swarms, announce.info_hash, DefaultSwarm)
    /\ result' = [result EXCEPT ![t] = Ok(None)]
    /\ pc' = [pc EXCEPT ![t] = "done"]
    /\ UNCHANGED <<config, now, req, snap, before, epc, enow, swept>>
    /\ UNCHANGED udp

\* TrackerInner::announce: under the map write-lock, insert a fresh swarm
InsertSwarm(t) ==
    LET announce == req[t].announce IN
    /\ pc[t] = "map_write"
    /\ MapReaders = {}
    /\ swarms' = MapInsert(swarms, announce.info_hash, SwarmAnnounce(DefaultSwarm, announce))
    /\ result' = [result EXCEPT ![t] = Ok(None)]
    /\ pc' = [pc EXCEPT ![t] = "done"]
    /\ UNCHANGED <<config, now, req, snap, before, epc, enow, swept>>
    /\ UNCHANGED udp

---------------------------------------------------------------------------
(* Scrape *)

\* Tracker::scrape is called
Scrape(t, info_hashes) ==
    /\ pc[t] = "idle"
    /\ req' = [req EXCEPT ![t] = [op |-> "scrape", info_hashes |-> info_hashes,
                                   at |-> wall]]
    /\ result' = [result EXCEPT ![t] = Ok(<<>>)]
    /\ before' = [before EXCEPT ![t] = swarms]
    /\ snap' = [snap EXCEPT ![t] = None]
    /\ pc' = [pc EXCEPT ![t] = "scrape_map_read"]
    /\ UNCHANGED <<swarms, config, now, epc, enow, swept>>
    /\ UNCHANGED udp

\* TrackerInner::scrape: the map read-lock is acquired
ScrapeLock(t) ==
    /\ pc[t] = "scrape_map_read"
    /\ pc' = [pc EXCEPT ![t] = "scrape"]
    /\ UNCHANGED <<swarms, config, now, req, result, snap, before, epc, enow, swept>>
    /\ UNCHANGED udp

\* ScrapeRead creating an empty swarm for a hash that is not in the map
ScrapeReadCreating(t) ==
    LET done == Len(result[t].val)
        hash == req[t].info_hashes[done + 1]
    IN
    /\ pc[t] = "scrape"
    /\ done < Len(req[t].info_hashes)
    /\ swarms' = IF hash \in DOMAIN swarms THEN swarms
                 ELSE MapInsert(swarms, hash, DefaultSwarm)
    /\ result' = [result EXCEPT ![t].val = Append(@,
                    IF hash \in DOMAIN swarms
                    THEN <<swarms[hash].complete, swarms[hash].incomplete, swarms[hash].downloaded>>
                    ELSE <<0, 0, 0>>)]
    /\ UNCHANGED <<config, now, pc, req, snap, before, epc, enow, swept>>
    /\ UNCHANGED udp

\* ScrapeRead giving the counters in the order of the reply packet
ScrapeReadWireOrder(t) ==
    LET done == Len(result[t].val)
        hash == req[t].info_hashes[done + 1]
    IN
    /\ pc[t] = "scrape"
    /\ done < Len(req[t].info_hashes)
    /\ result' = [result EXCEPT ![t].val = Append(@,
                    IF hash \in DOMAIN swarms
                    THEN <<swarms[hash].complete, swarms[hash].downloaded, swarms[hash].incomplete>>
                    ELSE <<0, 0, 0>>)]
    /\ UNCHANGED <<swarms, config, now, pc, req, snap, before, epc, enow, swept>>
    /\ UNCHANGED udp

\* TrackerInner::scrape: the next hash's counters are read under its read-lock
ScrapeRead(t) ==
    LET done == Len(result[t].val)
        hash == req[t].info_hashes[done + 1]
    IN
    /\ pc[t] = "scrape"
    /\ done < Len(req[t].info_hashes)
    /\ result' = [result EXCEPT ![t].val = Append(@,
                    IF hash \in DOMAIN swarms
                    THEN <<swarms[hash].complete, swarms[hash].incomplete, swarms[hash].downloaded>>
                    ELSE <<0, 0, 0>>)]
    /\ UNCHANGED <<swarms, config, now, pc, req, snap, before, epc, enow, swept>>
    /\ UNCHANGED udp

\* TrackerInner::scrape returns and drops the map read-lock
ScrapeEnd(t) ==
    /\ pc[t] = "scrape"
    /\ Len(result[t].val) = Len(req[t].info_hashes)
    /\ pc' = [pc EXCEPT ![t] = "done"]
    /\ UNCHANGED <<swarms, config, now, req, result, snap, before, epc, enow, swept>>
    /\ UNCHANGED udp

---------------------------------------------------------------------------
(* The end of a request task *)

\* a runtime in which a task that panicked is never cleaned up
FinishUnlessPanicked(t) ==
    /\ pc[t] \in {"done", "unsent"}
    /\ dgram[t] = NoDatagram \/ sent[t] # <<>> \/ pc[t] = "unsent" \/ req[t].op = "ignored"
    /\ pc' = [pc EXCEPT ![t] = "idle"]
    /\ req' = [req EXCEPT ![t] = NoRequest]
    /\ result' = [result EXCEPT ![t] = Ok(None)]
    /\ snap' = [snap EXCEPT ![t] = None]
    /\ before' = [before EXCEPT ![t] = <<>>]
    /\ dgram' = [dgram EXCEPT ![t] = NoDatagram]
    /\ sent' = [sent EXCEPT ![t] = <<>>]
    /\ UNCHANGED <<swarms, config, now, epc, enow, swept, wall, held, debug_assertions, skipped, px>>

\* the reply has been sent and the task is dropped; the next datagram gets a new task
Finish(t) ==
    /\ pc[t] \in {"done", "panicked", "unsent"}
    /\ \/ dgram[t] = NoDatagram
       \/ sent[t] # <<>>
       \/ pc[t] \in {"panicked", "unsent"}
       \/ req[t].op = "ignored"
    /\ pc' = [pc EXCEPT ![t] = "idle"]
    /\ req' = [req EXCEPT ![t] = NoRequest]
    /\ result' = [result EXCEPT ![t] = Ok(None)]
    /\ snap' = [snap EXCEPT ![t] = None]
    /\ before' = [before EXCEPT ![t] = <<>>]
    /\ dgram' = [dgram EXCEPT ![t] = NoDatagram]
    /\ sent' = [sent EXCEPT ![t] = <<>>]
    /\ UNCHANGED <<swarms, config, now, epc, enow, swept, wall, held, debug_assertions, skipped, px>>

---------------------------------------------------------------------------
(* Eviction *)

\* TrackerInner::evict is called: now is captured
EvictBegin ==
    /\ epc = "idle"
    /\ epc' = "map_read"
    /\ enow' = now
    /\ UNCHANGED <<swarms, config, now, pc, req, result, snap, before, swept>>
    /\ UNCHANGED udp

\* TrackerInner::evict: the map read-lock is acquired
EvictLock ==
    /\ epc = "map_read"
    /\ epc' = "evicting"
    /\ UNCHANGED <<swarms, config, now, pc, req, result, snap, before, enow, swept>>
    /\ UNCHANGED udp

\* TrackerInner::evict: one turn of the while loop, the future of swarm h
\* is the one that completes
EvictSwarm(h) ==
    /\ epc = "evicting"
    /\ h \in DOMAIN swarms
    /\ swarms' = [swarms EXCEPT ![h] = SwarmEvict(@, enow, config.max_interval)]
    /\ UNCHANGED <<config, now, pc, req, result, snap, before, epc, enow, swept>>
    /\ UNCHANGED udp

\* TrackerInner::evict: the stream of futures is empty, the loop ends
EvictEnd ==
    /\ epc = "evicting"
    /\ DOMAIN swarms = {}
    /\ epc' = "idle"
    /\ UNCHANGED <<swarms, config, now, pc, req, result, snap, before, enow, swept>>
    /\ UNCHANGED udp

\* TrackerInner::evict with join_all: the map read-lock is acquired and one
\* future per swarm of the map is created
EvictAllLock ==
    /\ epc = "map_read"
    /\ epc' = "joining"
    /\ swept' = {}
    /\ UNCHANGED <<swarms, config, now, pc, req, result, snap, before, enow>>
    /\ UNCHANGED udp

\* TrackerInner::evict with join_all: the future of swarm h takes the
\* swarm's write-lock, calls Swarm::evict and completes
EvictJoin(h) ==
    /\ epc = "joining"
    /\ h \in (DOMAIN swarms) \ swept
    /\ swarms' = [swarms EXCEPT ![h] = SwarmEvict(@, enow, config.max_interval)]
    /\ swept' = swept \cup {h}
    /\ UNCHANGED <<config, now, pc, req, result, snap, before, epc, enow>>
    /\ UNCHANGED udp

\* TrackerInner::evict with join_all: every future has completed, the pass
\* returns and drops the map read-lock
EvictJoinEnd ==
    /\ epc = "joining"
    /\ swept = DOMAIN swarms
    /\ epc' = "idle"
    /\ swept' = {}
    /\ UNCHANGED <<swarms, config, now, pc, req, result, snap, before, enow>>
    /\ UNCHANGED udp

\* time passes
Tick ==
    /\ now < MaxTime
    /\ now' = now + 1
    /\ UNCHANGED <<swarms, config, pc, req, result, snap, before, epc, enow, swept>>
    /\ UNCHANGED udp

---------------------------------------------------------------------------
(* Inputs *)

IpA == <<4, 1>>
IpB == <<4, 2>>
Ip6 == <<6, 1>>

\* (downloaded, uploaded, left) of a leecher and of a seeder
Leeching == <<0, 1, 5>>
Seeding == <<5, 2, 0>>

Request(info_hash, peer_id, transfer, event, ip, port, ip_param, key, num_want) ==
    [ info_hash |-> info_hash,
      peer_id |-> peer_id,
      downloaded |-> transfer[1],
      uploaded |-> transfer[2],
      left |-> transfer[3],
      event |-> event,
      addr |-> SocketAddr(ip, port),
      ip_param |-> ip_param,
      key |-> key,
      num_want |-> num_want,
      instant |-> 0 ]

Events == {"None", "Completed", "Started", "Stopped", "Paused"}

\* SystemTime when the server starts: the first second of a 2-minute window
WallStart == 2 * 120

\* the tracker and the UDP server after construction
InitFrontEnd(configs, builds) ==
    /\ swarms = <<>>
    /\ config \in configs
    /\ now = 0
    /\ pc = [t \in Tasks |-> "idle"]
    /\ req = [t \in Tasks |-> NoRequest]
    /\ result = [t \in Tasks |-> Ok(None)]
    /\ snap = [t \in Tasks |-> None]
    /\ before = [t \in Tasks |-> <<>>]
    /\ epc = "idle"
    /\ enow = 0
    /\ swept = {}
    /\ wall = WallStart
    /\ dgram = [t \in Tasks |-> NoDatagram]
    /\ sent = [t \in Tasks |-> <<>>]
    /\ held = None
    /\ debug_assertions \in builds
    /\ skipped = None
    /\ px = NoParse

\* the tracker after construction, in a build without debug assertions
InitWith(configs) == InitFrontEnd(configs, {FALSE})

TrackUnknown == [DefaultConfig EXCEPT !.announce_unknown_torrents = TRUE]

---------------------------------------------------------------------------
(* UDP front-end *)

\* Ipv4Addr::to_ipv6_mapped: ::ffff:a.b.c.d is written as the IPv6 address
\* whose host part is the negated IPv4 host part
to_ipv6_mapped(ip) == <<6, 0 - ip[2]>>

\* UdpTracker::run: the remote ip of a datagram, an IPv4-mapped IPv6 source
\* address turned into the IPv4 address
Canonical(ip) == IF is_ipv6(ip) /\ ip[2] < 0 THEN <<4, 0 - ip[2]>> ELSE ip

\* the 16 octets of an address
ip_to_bytes(ip) == IF is_ipv4(ip) THEN to_ipv6_mapped(ip) ELSE ip

\* Ipv6Addr::to_ipv4: None for an address that is not IPv4-mapped
to_ipv4(ip) == IF ip[2] < 0 THEN Some(<<4, 0 - ip[2]>>) ELSE None

\* the 8 random bytes generated at bind, and 8 bytes a client may guess
Secret == "secret"
Guess == "guess"

\* the first 8 bytes of SHA-256(secret, two_min_window, remote_ip); the
\* hash is taken to be injective
make_connection_id(secret, window, remote_ip) == <<secret, window, remote_ip>>

\* verify_connection_id accepting the current window only
verify_current_window(secret, time_frame, remote_ip, connection_id) ==
    connection_id = make_connection_id(secret, time_frame, ip_to_bytes(remote_ip))

\* verify_connection_id accepting one more window back
verify_three_windows(secret, time_frame, remote_ip, connection_id) ==
    connection_id \in { make_connection_id(secret, time_frame - back, ip_to_bytes(remote_ip)) :
                          back \in {0, 1, 2} }

\* verify_connection_id; time_frame - 1 cannot wrap, SystemTime being past
\* the first 2 minutes of 1970
verify_connection_id(secret, time_frame, remote_ip, connection_id) ==
    LET ip_bytes == ip_to_bytes(remote_ip) IN
    \/ connection_id = make_connection_id(secret, time_frame, ip_bytes)
    \/ connection_id = make_connection_id(secret, time_frame - 1, ip_bytes)

two_min_window == wall \div 120

\* the built-in kinds of Error
BuiltInErrors ==
    { "AccessDenied", "InvalidAnnounceUrl", "InvalidInfoHash", "InvalidIpAddress",
      "InvalidParams", "InvalidPeerId", "InvalidPort", "Internal", "IpAddressChanged",
      "TorrentNotFound" }

\* Error::Custom with some messages an extension can give it: 55 and 56
\* bytes of 'x', "ok" followed by a line feed, and a two-byte UTF-8 letter
CustomErrors == { "Custom55", "Custom56", "CustomLineFeed", "CustomUtf8" }

\* Error::message, as bytes
message(error) ==
    CASE error = "AccessDenied" ->
           <<97, 99, 99, 101, 115, 115, 32, 100, 101, 110, 105, 101, 100>>   \* "access denied"
      [] error = "InvalidAnnounceUrl" ->
           <<105, 110, 118, 97, 108, 105, 100, 32, 97, 110, 110, 111, 117, 110, 99, 101, 32, 85, 82, 76>>   \* "invalid announce URL"
      [] error = "InvalidInfoHash" ->
           <<105, 110, 118, 97, 108, 105, 100, 32, 105, 110, 102, 111, 32, 104, 97, 115, 104>>   \* "invalid info hash"
      [] error = "InvalidIpAddress" ->
           <<105, 110, 118, 97, 108, 105, 100, 32, 73, 80, 32, 97, 100, 100, 114, 101, 115, 115>>   \* "invalid IP address"
      [] error = "InvalidParams" ->
           <<105, 110, 118, 97, 108, 105, 100, 32, 112, 97, 114, 97, 109, 101, 116, 101, 114, 115>>   \* "invalid parameters"
      [] error = "InvalidPeerId" ->
           <<105, 110, 118, 97, 108, 105, 100, 32, 112, 101, 101, 114, 32, 105, 100>>   \* "invalid peer id"
      [] error = "InvalidPort" ->
           <<105, 110, 118, 97, 108, 105, 100, 32, 112, 111, 114, 116>>   \* "invalid port"
      [] error = "Internal" ->
           <<105, 110, 116, 101, 114, 110, 97, 108, 32, 115, 101, 114, 118, 101, 114, 32, 101, 114, 114, 111, 114>>   \* "internal server error"
      [] error = "IpAddressChanged" ->
           <<73, 80, 32, 97, 100, 100, 114, 101, 115, 115, 32, 99, 104, 97, 110, 103, 101, 100>>   \* "IP address changed"
      [] error = "TorrentNotFound" ->
           <<116, 111, 114, 114, 101, 110, 116, 32, 110, 111, 116, 32, 102, 111, 117, 110, 100>>   \* "torrent not found"
      [] error = "Custom55" -> [k \in 1 .. 55 |-> 120]
      [] error = "Custom56" -> [k \in 1 .. 56 |-> 120]
      [] error = "CustomLineFeed" -> <<111, 107, 10>>
      [] error = "CustomUtf8" -> <<195, 169>>

\* the first debug assertion at the start of Transaction::error
ErrorLengthAssertion(bytes) == Len(bytes) <= 55

\* the second debug assertion at the start of Transaction::error
ErrorAsciiAssertion(bytes) == \E i \in 1 .. Len(bytes) : ~(bytes[i] \in 32 .. 126)

\* the two debug assertions at the start of Transaction::error
ErrorAssertions(bytes) ==
    /\ ErrorLengthAssertion(bytes)
    /\ ErrorAsciiAssertion(bytes)

\* Transaction::error: the slices rpkt[8..8 + len] and rpkt[..len + 9] of
\* the 64-byte reply buffer are in bounds
ErrorFitsBuffer(bytes) == 8 + Len(bytes) <= 64 /\ Len(bytes) + 9 <= 64

\* the event field of an announce packet
ParseEvent(n) ==
    CASE n = 1 -> "Completed"
      [] n = 2 -> "Started"
      [] n = 3 -> "Stopped"
      [] OTHER -> "None"

\* Transaction::parse_announce
parse_announce(x) ==
    Request(x.body.info_hash, x.body.peer_id, x.body.transfer, ParseEvent(x.body.event),
            x.remote_ip, x.body.port,
            IF x.body.ip # 0 THEN Some(<<4, x.body.ip>>) ELSE None,
            Some(x.body.key), x.body.num_want)

MAX_NUM_WANT == 256
ANNOUNCE_SIZE == 20 + 18 * MAX_NUM_WANT
MIN_CONNECT_SIZE == 16
MIN_ANNOUNCE_SIZE == 98
MIN_SCRAPE_SIZE == 36
MIN_PACKET_SIZE == MIN_CONNECT_SIZE
MAX_PACKET_SIZE == 8192

\* 0x41727101980, the magic of a connect packet
PROTOCOL_ID == "0x41727101980"

MAX_SCRAPE_TORRENTS == 128
SCRAPE_SIZE == 8 + 12 * MAX_SCRAPE_TORRENTS

\* Transaction::scrape reads the packet in slots of 20 bytes from offset 16;
\* body[k] is slot k (0: twenty zero bytes), and the bytes of the receive
\* buffer past the packet are zero.  The slots that begin inside the packet:
Slots(x) == (x.len - 16 + 19) \div 20

HashAt(x, k) == IF k <= Len(x.body) /\ k <= Slots(x) THEN x.body[k] ELSE 0

\* the number of turns of the loop that find a hash other than zero, were
\* the arrays long enough
NonZeroRun(x) ==
    CHOOSE n \in 0 .. Slots(x) :
        /\ \A k \in 1 .. n : HashAt(x, k) # 0
        /\ n = Slots(x) \/ HashAt(x, n + 1) = 0

\* the number of slots the loop reads with array_ref! before it ends or
\* panics
SlotsRead(x) ==
    Min(Min(NonZeroRun(x) + 1, Slots(x)), MAX_SCRAPE_TORRENTS + 1)

\* the loop panics: array_ref! past the end of the receive buffer, or
\* info_hashes[i] with i = MAX_SCRAPE_TORRENTS
ScrapePanics(x) ==
    \/ 16 + 20 * SlotsRead(x) > MAX_PACKET_SIZE
    \/ NonZeroRun(x) > MAX_SCRAPE_TORRENTS

\* Transaction::scrape: the info-hashes taken from the packet, up to the
\* first all-zero one
TakenHashes(x) ==
    [ k \in 1 .. Min(NonZeroRun(x), MAX_SCRAPE_TORRENTS) |-> x.body[k] ]

\* UdpTracker::run: a datagram is received and a task is spawned to handle it
Receive(t, d) ==
    /\ pc[t] = "idle"
    /\ dgram[t] = NoDatagram
    /\ d.len >= MIN_PACKET_SIZE
    /\ d.len <= MAX_PACKET_SIZE
    /\ dgram' = [dgram EXCEPT ![t] =
                   [ action |-> d.action,
                     connection_id |-> d.connection_id,
                     transaction_id |-> d.transaction_id,
                     addr |-> d.addr,
                     remote_ip |-> Canonical(d.addr.ip),
                     len |-> d.len,
                     body |-> d.body ]]
    /\ UNCHANGED <<swarms, config, now, pc, req, result, snap, before, epc, enow, swept>>
    /\ UNCHANGED <<wall, sent, held, debug_assertions, skipped, px>>

\* an io error of recv_from
IoError == [action |-> "io_error"]

\* UdpTracker::run: an ill-sized datagram is received; the loop continues
\* with the next recv_from and spawns no task
Drop(d) ==
    /\ d.len < MIN_PACKET_SIZE \/ d.len > MAX_PACKET_SIZE
    /\ skipped' = Some(d)
    /\ UNCHANGED <<swarms, config, now, pc, req, result, snap, before, epc, enow, swept>>
    /\ UNCHANGED <<wall, dgram, sent, held, debug_assertions, px>>

\* UdpTracker::run: recv_from fails; the error is logged and the loop
\* continues with the next recv_from
RecvError ==
    /\ skipped' = Some(IoError)
    /\ UNCHANGED <<swarms, config, now, pc, req, result, snap, before, epc, enow, swept>>
    /\ UNCHANGED <<wall, dgram, sent, held, debug_assertions, px>>

\* Transaction::error: the task panics on a failed debug assertion, or the
\* error reply is sent
SendError(t, error) ==
    IF \/ debug_assertions /\ ~ErrorAssertions(message(error))
       \/ ~ErrorFitsBuffer(message(error))
    THEN /\ pc' = [pc EXCEPT ![t] = "panicked"]
         /\ UNCHANGED sent
    ELSE /\ pc' = [pc EXCEPT ![t] = "done"]
         /\ sent' = [sent EXCEPT ![t] = Append(@,
                       [ action |-> 3,
                         transaction_id |-> dgram[t].transaction_id,
                         message |-> message(error) ])]

\* Transaction::handle, CONNECT: the connect reply is sent
Connect(t) ==
    LET id == make_connection_id(Secret, two_min_window, ip_to_bytes(dgram[t].remote_ip)) IN
    /\ pc[t] = "idle"
    /\ dgram[t].action = "connect"
    /\ dgram[t].len >= MIN_CONNECT_SIZE
    /\ dgram[t].connection_id = PROTOCOL_ID
    /\ sent' = [sent EXCEPT ![t] = Append(@,
                  [ action |-> 0,
                    transaction_id |-> dgram[t].transaction_id,
                    connection_id |-> id ])]
    /\ held' = Some([id |-> id, at |-> wall, addr |-> dgram[t].addr, ip |-> dgram[t].remote_ip])
    /\ req' = [req EXCEPT ![t] = [op |-> "connect", at |-> wall]]
    /\ before' = [before EXCEPT ![t] = swarms]
    /\ pc' = [pc EXCEPT ![t] = "done"]
    /\ UNCHANGED <<swarms, config, now, result, snap, epc, enow, swept>>
    /\ UNCHANGED <<wall, dgram, debug_assertions, skipped, px>>

\* a handler that takes every packet of a known action, whatever its size
WellFormedAnySize(x) == x.action \in {"connect", "announce", "scrape"}

\* the packet is long enough for its action, and a connect has the magic
WellFormed(x) ==
    CASE x.action = "connect" -> x.len >= MIN_CONNECT_SIZE /\ x.connection_id = PROTOCOL_ID
      [] x.action = "announce" -> x.len >= MIN_ANNOUNCE_SIZE
      [] x.action = "scrape" -> x.len >= MIN_SCRAPE_SIZE
      [] OTHER -> FALSE

\* Transaction::handle returns without a reply: unknown action, short
\* packet, or connect without the magic
Ignore(t) ==
    /\ pc[t] = "idle"
    /\ dgram[t] # NoDatagram
    /\ ~WellFormed(dgram[t])
    /\ req' = [req EXCEPT ![t] = [op |-> "ignored", at |-> wall]]
    /\ before' = [before EXCEPT ![t] = swarms]
    /\ pc' = [pc EXCEPT ![t] = "done"]
    /\ UNCHANGED <<swarms, config, now, result, snap, epc, enow, swept>>
    /\ UNCHANGED udp

\* Transaction::handle, ANNOUNCE or SCRAPE with a connection id that fails
\* verification
Deny(t) ==
    /\ pc[t] = "idle"
    /\ dgram[t].action \in {"announce", "scrape"}
    /\ WellFormed(dgram[t])
    /\ ~verify_connection_id(Secret, two_min_window, dgram[t].remote_ip,
                             dgram[t].connection_id)
    /\ req' = [req EXCEPT ![t] = [op |-> "denied", at |-> wall]]
    /\ result' = [result EXCEPT ![t] = Err("AccessDenied")]
    /\ before' = [before EXCEPT ![t] = swarms]
    /\ SendError(t, "AccessDenied")
    /\ UNCHANGED <<swarms, config, now, snap, epc, enow, swept>>
    /\ UNCHANGED <<wall, dgram, held, debug_assertions, skipped, px>>

\* Transaction::handle, ANNOUNCE with a verified connection id
UdpAnnounce(t) ==
    /\ dgram[t].action = "announce"
    /\ WellFormed(dgram[t])
    /\ verify_connection_id(Secret, two_min_window, dgram[t].remote_ip,
                            dgram[t].connection_id)
    /\ Announce(t, parse_announce(dgram[t]))

\* Transaction::handle, ANNOUNCE with a verified connection id, when
\* Tracker::announce returns Err(error): an error of the tracker, of the
\* parameter parser or of an extension's validate
UdpAnnounceFails(t, error) ==
    LET announce == [parse_announce(dgram[t]) EXCEPT !.instant = now] IN
    /\ pc[t] = "idle"
    /\ dgram[t].action = "announce"
    /\ WellFormed(dgram[t])
    /\ verify_connection_id(Secret, two_min_window, dgram[t].remote_ip,
                            dgram[t].connection_id)
    /\ req' = [req EXCEPT ![t] = [ op |-> "announce", announce |-> announce,
                                  remote_ip |-> announce.addr.ip,
                                  num_want |-> announce.num_want,
                                  at |-> wall ]]
    /\ result' = [result EXCEPT ![t] = Err(error)]
    /\ before' = [before EXCEPT ![t] = swarms]
    /\ snap' = [snap EXCEPT ![t] = None]
    /\ pc' = [pc EXCEPT ![t] = "done"]
    /\ UNCHANGED <<swarms, config, now, epc, enow, swept>>
    /\ UNCHANGED udp

\* Transaction::handle, ANNOUNCE with a verified connection id, whatever
\* the counters are
UdpAnnounceCall(t) ==
    /\ dgram[t].action = "announce"
    /\ WellFormed(dgram[t])
    /\ verify_connection_id(Secret, two_min_window, dgram[t].remote_ip,
                            dgram[t].connection_id)
    /\ AnnounceCall(t, parse_announce(dgram[t]))

\* Transaction::handle, SCRAPE with a verified connection id
UdpScrape(t) ==
    /\ dgram[t].action = "scrape"
    /\ WellFormed(dgram[t])
    /\ verify_connection_id(Secret, two_min_window, dgram[t].remote_ip,
                            dgram[t].connection_id)
    /\ IF ScrapePanics(dgram[t])
       THEN /\ pc[t] = "idle"
            /\ req' = [req EXCEPT ![t] = [op |-> "scrape",
                                           info_hashes |-> TakenHashes(dgram[t]),
                                           at |-> wall]]
            /\ before' = [before EXCEPT ![t] = swarms]
            /\ pc' = [pc EXCEPT ![t] = "panicked"]
            /\ UNCHANGED <<swarms, config, now, result, snap, epc, enow, swept>>
            /\ UNCHANGED udp
       ELSE Scrape(t, TakenHashes(dgram[t]))

\* an encoding chosen by the family of each peer's address
EncodePeersByPeerFamily(remote_ip, addrs) ==
    [ i \in 1 .. Len(addrs) |->
        IF is_ipv6(addrs[i].addr.ip)
        THEN [ip |-> addrs[i].addr.ip, port |-> addrs[i].addr.port, size |-> 18]
        ELSE [ip |-> Some(addrs[i].addr.ip), port |-> addrs[i].addr.port, size |-> 6] ]

\* the peer list of an announce reply: 18 bytes per peer for an IPv6
\* requester, 6 bytes per peer otherwise
EncodePeers(remote_ip, addrs) ==
    [ i \in 1 .. Len(addrs) |->
        IF is_ipv6(remote_ip)
        THEN [ip |-> ip_to_bytes(addrs[i].addr.ip), port |-> addrs[i].addr.port, size |-> 18]
        ELSE [ ip |-> IF is_ipv4(addrs[i].addr.ip) THEN Some(addrs[i].addr.ip)
                      ELSE to_ipv4(addrs[i].addr.ip),
               port |-> addrs[i].addr.port, size |-> 6 ] ]

\* Transaction::announce after Tracker::announce has returned
RespondAnnounce(t) ==
    IF result[t].ok
    THEN LET res == result[t].val
             seeders == IF is_some(res) THEN res[1].complete ELSE 0
             leechers == IF is_some(res) THEN res[1].incomplete ELSE 0
             addrs == IF is_some(res) THEN res[1].peers ELSE <<>>
             peers == EncodePeers(dgram[t].remote_ip, addrs)
         IN IF \/ \E i \in 1 .. Len(peers) : peers[i].size = 6 /\ is_none(peers[i].ip)
               \/ \E i \in 1 .. Len(peers) : 20 + peers[i].size * i > ANNOUNCE_SIZE
            THEN \* to_ipv4().unwrap() on an address that is not IPv4-mapped,
                 \* or a slice of rpkt past its end
                 /\ pc' = [pc EXCEPT ![t] = "panicked"]
                 /\ UNCHANGED sent
            ELSE /\ sent' = [sent EXCEPT ![t] = Append(@,
                               [ action |-> 1,
                                 transaction_id |-> dgram[t].transaction_id,
                                 interval |-> config.interval,
                                 leechers |-> leechers,
                                 seeders |-> seeders,
                                 peers |-> peers ])]
                 /\ UNCHANGED pc
    ELSE SendError(t, result[t].err)

\* Transaction::scrape after Tracker::scrape has returned
RespondScrape(t) ==
    /\ sent' = [sent EXCEPT ![t] = Append(@,
                  [ action |-> 2,
                    transaction_id |-> dgram[t].transaction_id,
                    torrents |-> [ i \in 1 .. Len(result[t].val) |->
                                     [ seeders |-> result[t].val[i][1],
                                       completed |-> result[t].val[i][3],
                                       leechers |-> result[t].val[i][2] ] ] ])]
    /\ UNCHANGED pc

\* the task writes its reply to the socket
Respond(t) ==
    /\ pc[t] = "done"
    /\ req[t].op \in {"announce", "scrape"}
    /\ dgram[t] # NoDatagram
    /\ sent[t] = <<>>
    /\ IF req[t].op = "announce" THEN RespondAnnounce(t) ELSE RespondScrape(t)
    /\ UNCHANGED <<swarms, config, now, req, result, snap, before, epc, enow, swept>>
    /\ UNCHANGED <<wall, dgram, held, debug_assertions, skipped, px>>

\* send_to fails: the error is logged and the task ends without a reply
SendFails(t) ==
    /\ pc[t] = "done"
    /\ req[t].op \in {"announce", "scrape"}
    /\ dgram[t] # NoDatagram
    /\ sent[t] = <<>>
    /\ pc' = [pc EXCEPT ![t] = "unsent"]
    /\ UNCHANGED <<swarms, config, now, req, result, snap, before, epc, enow, swept>>
    /\ UNCHANGED udp

\* SystemTime advances by d seconds
Elapse(d) ==
    /\ wall + d <= MaxWall
    /\ wall' = wall + d
    /\ UNCHANGED <<swarms, config, now, pc, req, result, snap, before, epc, enow, swept>>
    /\ UNCHANGED <<dgram, sent, held, debug_assertions, skipped, px>>

---------------------------------------------------------------------------
(* Spec: one request task and the eviction task, on one torrent.  Two      *)
(* peers announce every event as leecher or seeder, from one address.      *)

StoreRequests ==
    { Request(1, p, x, e, IpA, 6881, None, None, -1) :
        p \in {1, 2}, x \in {Leeching, Seeding}, e \in Events }

Init == InitWith({[TrackUnknown EXCEPT !.max_interval = 1]})

Next ==
    \/ \E a \in StoreRequests : Announce(1, a)
    \/ LookupSwarm(1)
    \/ ValidateAndSelect(1)
    \/ ApplyAnnounce(1)
    \/ InsertSwarm(1)
    \/ Finish(1)
    \/ \E hs \in {<<1>>, <<2, 1>>} : Scrape(1, hs)
    \/ ScrapeLock(1)
    \/ ScrapeRead(1)
    \/ ScrapeEnd(1)
    \/ EvictBegin
    \/ EvictLock
    \/ \E h \in {1, 2} : EvictSwarm(h)
    \/ EvictEnd
    \/ Tick

Spec == Init /\ [][Next]_vars

---------------------------------------------------------------------------
(* SpecIdentity: one request task, one peer-id announcing from two         *)
(* addresses with no key or one of two keys, on valid and system ports,    *)
(* under the default policy, with unknown torrents tracked, and with       *)
(* deny_all_ip_changes set.                                                *)

IdentityRequests ==
    { Request(1, 1, x, e, ip, port, None, key, -1) :
        x \in {Leeching, Seeding}, e \in {"None", "Started", "Completed", "Stopped"},
        ip \in {IpA, IpB}, port \in {80, 6881}, key \in {None, Some(1), Some(2)} }

InitIdentity ==
    InitWith({DefaultConfig, TrackUnknown, [TrackUnknown EXCEPT !.deny_all_ip_changes = TRUE]})

NextIdentity ==
    \/ \E a \in IdentityRequests : Announce(1, a)
    \/ LookupSwarm(1)
    \/ ValidateAndSelect(1)
    \/ ApplyAnnounce(1)
    \/ InsertSwarm(1)
    \/ Finish(1)
    \/ Tick

SpecIdentity == InitIdentity /\ [][NextIdentity]_vars

---------------------------------------------------------------------------
(* SpecSelect: one request task, three peer-ids announcing as leecher or   *)
(* seeder over IPv4 or IPv6 (or over IPv6 declaring an IPv4 address) and   *)
(* asking for the default number of peers, none or one; a fourth peer-id   *)
(* announcing as a seeder over IPv4.                                       *)

SelectRequests ==
    { Request(1, p, x, "None", ip, 6881, None, None, n) :
        p \in {1, 2, 3}, x \in {Leeching, Seeding}, ip \in {IpA, Ip6}, n \in {-1, 0, 1} }
    \cup
    { Request(1, p, Seeding, "None", Ip6, 6881, Some(IpB), None, -1) : p \in {1, 2} }
    \cup
    { Request(1, 4, Seeding, "None", IpA, 6881, None, None, -1) }

InitSelect ==
    InitWith({TrackUnknown, [TrackUnknown EXCEPT !.unsafe_honor_ip_param = TRUE]})

NextSelect ==
    \/ \E a \in SelectRequests : Announce(1, a)
    \/ LookupSwarm(1)
    \/ ValidateAndSelect(1)
    \/ ApplyAnnounce(1)
    \/ InsertSwarm(1)
    \/ Finish(1)

SpecSelect == InitSelect /\ [][NextSelect]_vars

---------------------------------------------------------------------------
(* SpecRace: two request tasks run concurrently; one peer-id announces     *)
(* from two addresses with one of two keys, a second one as a seeder.      *)

RaceRequests ==
    { Request(1, 1, Leeching, "None", ip, 6881, None, key, 0) :
        ip \in {IpA, IpB}, key \in {Some(1), Some(2)} }
    \cup
    { Request(1, 2, Seeding, "Completed", IpA, 6881, None, None, 0) }

InitRace == InitWith({TrackUnknown})

NextRace ==
    \E t \in Tasks :
        \/ \E a \in RaceRequests : Announce(t, a)
        \/ LookupSwarm(t)
        \/ ValidateAndSelect(t)
        \/ ApplyAnnounce(t)
        \/ InsertSwarm(t)
        \/ Finish(t)

SpecRace == InitRace /\ [][NextRace]_vars

---------------------------------------------------------------------------
(* SpecPolicy: one request task, one peer-id announcing over an RFC1918    *)
(* IPv4 address or a global IPv6 address, with or without a declared ip,   *)
(* on ports around the system-port limit and with num_want around the      *)
(* clamp limits, under every setting of the three policy flags; a second   *)
(* peer-id announcing as a seeder.                                         *)

PolicyRequests ==
    { Request(1, 1, Leeching, e, ip, port, ip_param, None, n) :
        e \in {"None", "Completed", "Stopped"}, ip \in {IpA, Ip6},
        port \in {0, 1023, 1024}, ip_param \in {None, Some(IpB)},
        n \in {-1, 0, 128, 129} }
    \cup
    { Request(1, 2, Seeding, "None", IpA, 6881, None, None, -1) }

InitPolicy ==
    InitWith({ [DefaultConfig EXCEPT !.announce_unknown_torrents = track,
                                     !.unsafe_honor_ip_param = unsafe,
                                     !.honor_ip_param_if_local = local] :
                 track \in BOOLEAN, unsafe \in BOOLEAN, local \in BOOLEAN })

NextPolicy ==
    \/ \E a \in PolicyRequests : Announce(1, a)
    \/ LookupSwarm(1)
    \/ ValidateAndSelect(1)
    \/ ApplyAnnounce(1)
    \/ InsertSwarm(1)
    \/ Finish(1)

SpecPolicy == InitPolicy /\ [][NextPolicy]_vars

---------------------------------------------------------------------------
(* Datagrams *)

Datagram(action, connection_id, transaction_id, ip, port, len, body) ==
    [ action |-> action,
      connection_id |-> connection_id,
      transaction_id |-> transaction_id,
      addr |-> SocketAddr(ip, port),
      len |-> len,
      body |-> body ]

\* the fields of an announce packet after the transaction id
AnnounceBody(info_hash, peer_id, transfer, event, ip, key, num_want, port) ==
    [ info_hash |-> info_hash,
      peer_id |-> peer_id,
      transfer |-> transfer,
      event |-> event,
      ip |-> ip,
      key |-> key,
      num_want |-> num_want,
      port |-> port ]

\* the connection ids a client at ip can put in a request: the one of the
\* latest connect reply, and a guess
ClientIds(ip) ==
    {make_connection_id(Guess, two_min_window, ip_to_bytes(Canonical(ip)))}
        \cup (IF is_some(held) THEN {held[1].id} ELSE {})

---------------------------------------------------------------------------
(* SpecConnect: one request task; clients at three addresses (one of them  *)
(* also seen as IPv4-mapped IPv6 and from a second source port) connect,   *)
(* announce and scrape with the latest connection id or a guessed one,     *)
(* while SystemTime advances over four 2-minute windows, in builds with    *)
(* and without debug assertions.                                           *)

ConnectDatagrams ==
    { Datagram("connect", PROTOCOL_ID, 7, ip, 5000, 16, <<>>) : ip \in {IpA, IpB, Ip6} }
    \cup
    { Datagram("connect", "0x0", 7, IpA, 5000, 16, <<>>),
      Datagram("unknown", "0x0", 7, IpA, 5000, 16, <<>>) }
    \cup
    UNION { { Datagram("announce", id, 8, src[1], src[2], src[3],
                       AnnounceBody(1, 1, Leeching, 0, 0, 1, -1, 6881)) :
                id \in ClientIds(src[1]) } :
            src \in { <<IpA, 5000, 98>>, <<IpA, 5001, 98>>, <<IpA, 5000, 97>>,
                      <<to_ipv6_mapped(IpA), 5000, 98>>, <<IpB, 5000, 98>> } }
    \cup
    UNION { { Datagram("scrape", id, 9, IpA, 5000, len, <<1, 0>>) :
                id \in ClientIds(IpA) } :
            len \in {35, 36} }

InitConnect == InitFrontEnd({TrackUnknown}, BOOLEAN)

NextConnect ==
    \/ \E d \in ConnectDatagrams : Receive(1, d)
    \/ Connect(1)
    \/ Ignore(1)
    \/ Deny(1)
    \/ UdpAnnounce(1)
    \/ UdpScrape(1)
    \/ LookupSwarm(1)
    \/ ValidateAndSelect(1)
    \/ ApplyAnnounce(1)
    \/ InsertSwarm(1)
    \/ ScrapeLock(1)
    \/ ScrapeRead(1)
    \/ ScrapeEnd(1)
    \/ Respond(1)
    \/ Finish(1)
    \/ \E d \in {119, 120, 121} : Elapse(d)

SpecConnect == InitConnect /\ [][NextConnect]_vars

---------------------------------------------------------------------------
(* SpecReply: one request task; two peer-ids connect and announce over     *)
(* IPv4 or IPv6 as leecher or seeder, with event none or stopped, asking   *)
(* for the default number of peers or none.                                *)

ReplyDatagrams ==
    { Datagram("connect", PROTOCOL_ID, 7, ip, 5000, 16, <<>>) : ip \in {IpA, Ip6} }
    \cup
    UNION { { Datagram("announce", id, 8, ip, 5000, 98,
                       AnnounceBody(1, p, x, e, 0, 1, n, 6881)) :
                p \in {1, 2}, x \in {Leeching, Seeding}, e \in {0, 3},
                n \in {-1, 0}, id \in ClientIds(ip) } :
            ip \in {IpA, Ip6} }
    \cup
    { Datagram("announce", id, 8, to_ipv6_mapped(IpA), 5000, 98,
               AnnounceBody(1, 3, Leeching, 0, 0, 1, -1, 6881)) :
        id \in ClientIds(IpA) }

InitReply == InitFrontEnd({TrackUnknown}, BOOLEAN)

NextReply ==
    \/ \E d \in ReplyDatagrams : Receive(1, d)
    \/ Connect(1)
    \/ Deny(1)
    \/ UdpAnnounce(1)
    \/ LookupSwarm(1)
    \/ ValidateAndSelect(1)
    \/ ApplyAnnounce(1)
    \/ InsertSwarm(1)
    \/ Respond(1)
    \/ Finish(1)

SpecReply == InitReply /\ [][NextReply]_vars

---------------------------------------------------------------------------
(* SpecEvict: one request task and the eviction task, on two torrents; the *)
(* eviction pass is the while loop or the join_all of TrackerInner::evict. *)
(* Two peers announce one torrent as leecher or seeder and one of them     *)
(* announces the other torrent, while time passes; the eviction threshold  *)
(* (max_interval) is 0 or 1 second.                                        *)

EvictRequests ==
    { Request(1, p, x, "None", IpA, 6881, None, None, -1) :
        p \in {1, 2}, x \in {Leeching, Seeding} }
    \cup
    { Request(2, 1, Leeching, "None", IpA, 6881, None, None, -1) }

InitEvict ==
    InitWith({ [TrackUnknown EXCEPT !.max_interval = T] : T \in {0, 1} })

NextEvict ==
    \/ \E a \in EvictRequests : Announce(1, a)
    \/ LookupSwarm(1)
    \/ ValidateAndSelect(1)
    \/ ApplyAnnounce(1)
    \/ InsertSwarm(1)
    \/ Finish(1)
    \/ EvictBegin
    \/ EvictLock
    \/ \E h \in {1, 2} : EvictSwarm(h)
    \/ EvictEnd
    \/ EvictAllLock
    \/ \E h \in {1, 2} : EvictJoin(h)
    \/ EvictJoinEnd
    \/ Tick

SpecEvict == InitEvict /\ [][NextEvict]_vars

---------------------------------------------------------------------------
(* FairEvict: one request task and the eviction task on two torrents.  The *)
(* task announces the torrents (the first announce of a torrent takes the  *)
(* new-torrent path and waits for the write-lock of the map); the eviction *)
(* pass is the while loop or the join_all of TrackerInner::evict and finds *)
(* no swarm, one swarm or two.                                             *)

LockRequests ==
    { Request(h, 1, Leeching, "None", IpA, 6881, None, None, -1) : h \in {1, 2} }

InitLocks == InitWith({[TrackUnknown EXCEPT !.max_interval = 0]})

\* a step of announce task t after the call
AnnounceStep(t) ==
    \/ LookupSwarm(t)
    \/ ValidateAndSelect(t)
    \/ ApplyAnnounce(t)
    \/ Finish(t)

\* a step of an eviction pass after the call
EvictionStep ==
    \/ EvictLock
    \/ \E h \in {1, 2} : EvictSwarm(h)
    \/ EvictEnd
    \/ EvictAllLock
    \/ \E h \in {1, 2} : EvictJoin(h)
    \/ EvictJoinEnd

NextEvictFair ==
    \/ \E a \in LockRequests : Announce(1, a)
    \/ AnnounceStep(1)
    \/ InsertSwarm(1)
    \/ EvictBegin
    \/ EvictionStep

\* the tokio runtime keeps polling every task that can make progress, and
\* tokio's RwLock is fair: a writer that waits is served once the readers
\* that hold the lock have released it
FairEvict ==
    /\ InitLocks /\ [][NextEvictFair]_vars
    /\ WF_vars(AnnounceStep(1))
    /\ SF_vars(InsertSwarm(1))
    /\ WF_vars(EvictionStep)

---------------------------------------------------------------------------
(* FairLocks: two request tasks and the eviction task on the locks of the  *)
(* tracker.  The tasks announce one torrent, on the new-torrent path and   *)
(* then on the known-torrent path, and scrape it, while eviction passes    *)
(* (the while loop or the join_all) run.  A lock of a swarm is never held  *)
(* across an await, so that each stretch under it is one step; the read-   *)
(* lock of the map is held from step to step (MapReaders).  The RwLock of  *)
(* tokio is write-preferring: while the lock is held by readers and a      *)
(* writer waits, no further reader is admitted.                            *)

\* the read-lock of the map is given out
ReadAdmitted == ~(MapReaders # {} /\ \E u \in Tasks : pc[u] = "map_write")

\* a step of request task t after the call
RequestStep(t) ==
    \/ ReadAdmitted /\ LookupSwarm(t)
    \/ ReadAdmitted /\ ScrapeLock(t)
    \/ ValidateAndSelect(t)
    \/ ApplyAnnounce(t)
    \/ ScrapeRead(t)
    \/ ScrapeEnd(t)
    \/ Finish(t)

\* a step of an eviction pass over the one torrent, after the call
PassStep ==
    \/ ReadAdmitted /\ EvictLock
    \/ ReadAdmitted /\ EvictAllLock
    \/ EvictSwarm(1)
    \/ EvictEnd
    \/ EvictJoin(1)
    \/ EvictJoinEnd

NextLocks ==
    \/ \E t \in Tasks : Announce(t, Request(1, 1, Leeching, "None", IpA, 6881, None, None, -1))
    \/ \E t \in Tasks : Scrape(t, <<1>>)
    \/ \E t \in Tasks : RequestStep(t)
    \/ \E t \in Tasks : InsertSwarm(t)
    \/ EvictBegin
    \/ PassStep

SpecLocks == InitLocks /\ [][NextLocks]_vars

\* the same runtime for two request tasks; a writer that waits is served
\* when the readers have left
FairLocks ==
    /\ SpecLocks
    /\ \A t \in Tasks : WF_vars(RequestStep(t)) /\ SF_vars(InsertSwarm(t))
    /\ WF_vars(PassStep)

---------------------------------------------------------------------------
(* SpecBuffer: one request task; a torrent with 256 or 257 stored leechers  *)
(* (each stored by an announce of its own); a further peer connects and     *)
(* announces over IPv4 or IPv6 asking for the default number of peers or    *)
(* for 257, under configurations whose default_num_want or max_num_want     *)
(* reaches past MAX_NUM_WANT.                                               *)

\* the swarm after n peer-ids have announced as leechers from one address
Crowd(n) ==
    [ complete |-> 0,
      incomplete |-> n,
      downloaded |-> 0,
      peers |-> [ id \in 1 .. n |->
                    PeerOf(Request(1, id, Leeching, "None", IpA, 6881, None, None, -1)) ] ]

BufferDatagrams ==
    { Datagram("connect", PROTOCOL_ID, 7, ip, 5000, 16, <<>>) : ip \in {IpA, Ip6} }
    \cup
    UNION { { Datagram("announce", id, 8, ip, 5000, 98,
                       AnnounceBody(1, 0, Leeching, 0, 0, 1, n, 6881)) :
                n \in {-1, 257}, id \in ClientIds(ip) } :
            ip \in {IpA, Ip6} }

\* the tracker and the UDP server, the torrent having been announced by 256
\* or 257 peers
InitBuffer ==
    /\ swarms \in { MapInsert(<<>>, 1, Crowd(n)) : n \in {MAX_NUM_WANT, MAX_NUM_WANT + 1} }
    /\ config \in { [TrackUnknown EXCEPT !.default_num_want = c[1], !.max_num_want = c[2]] :
                       c \in {<<300, 256>>, <<257, 257>>} }
    /\ now = 0
    /\ pc = [t \in Tasks |-> "idle"]
    /\ req = [t \in Tasks |-> NoRequest]
    /\ result = [t \in Tasks |-> Ok(None)]
    /\ snap = [t \in Tasks |-> None]
    /\ before = [t \in Tasks |-> <<>>]
    /\ epc = "idle"
    /\ enow = 0
    /\ swept = {}
    /\ wall = WallStart
    /\ dgram = [t \in Tasks |-> NoDatagram]
    /\ sent = [t \in Tasks |-> <<>>]
    /\ held = None
    /\ debug_assertions = FALSE
    /\ skipped = None
    /\ px = NoParse

NextBuffer ==
    \/ \E d \in BufferDatagrams : Receive(1, d)
    \/ Connect(1)
    \/ Deny(1)
    \/ UdpAnnounceCall(1)
    \/ LookupSwarm(1)
    \/ ValidateAndSelect(1)
    \/ ApplyAnnounce(1)
    \/ Respond(1)
    \/ Finish(1)

SpecBuffer == InitBuffer /\ [][NextBuffer]_vars

---------------------------------------------------------------------------
(* SpecScrape: one request task; a client connects, announces a torrent    *)
(* and sends scrape datagrams of the smallest length, of the lengths       *)
(* around 128 and 129 info-hashes and of the largest length, filled with   *)
(* info-hashes or ended early by a zero hash.                              *)

\* n info-hashes, a known and an unknown one in turn
Hashes(n) == [k \in 1 .. n |-> 1 + (k % 2)]

\* the slots of a scrape packet of length len filled with info-hashes, or
\* with a zero hash in slot z
ScrapeBodies(len) ==
    LET n == (len - 16 + 19) \div 20 IN
    {Hashes(n)} \cup { [Hashes(n) EXCEPT ![z] = 0] : z \in {3} \cap (1 .. n) }

ScrapeLengths ==
    { MIN_SCRAPE_SIZE, MIN_SCRAPE_SIZE + 1,
      16 + 20 * MAX_SCRAPE_TORRENTS, 16 + 20 * MAX_SCRAPE_TORRENTS + 1,
      16 + 20 * (MAX_SCRAPE_TORRENTS + 1), MAX_PACKET_SIZE }

ScrapeDatagrams ==
    { Datagram("connect", PROTOCOL_ID, 7, IpA, 5000, 16, <<>>) }
    \cup
    { Datagram("announce", id, 8, IpA, 5000, 98,
               AnnounceBody(2, 1, Leeching, 0, 0, 1, -1, 6881)) : id \in ClientIds(IpA) }
    \cup
    UNION { { Datagram("scrape", id, 9, IpA, 5000, len, body) :
                id \in ClientIds(IpA), body \in ScrapeBodies(len) } :
            len \in ScrapeLengths }

InitScrape == InitWith({TrackUnknown})

NextScrape ==
    \/ \E d \in ScrapeDatagrams : Receive(1, d)
    \/ Connect(1)
    \/ Deny(1)
    \/ UdpAnnounce(1)
    \/ LookupSwarm(1)
    \/ ValidateAndSelect(1)
    \/ ApplyAnnounce(1)
    \/ InsertSwarm(1)
    \/ UdpScrape(1)
    \/ ScrapeLock(1)
    \/ ScrapeRead(1)
    \/ ScrapeEnd(1)
    \/ Respond(1)
    \/ Finish(1)

SpecScrape == InitScrape /\ [][NextScrape]_vars

---------------------------------------------------------------------------
(* SpecLoop: the receive loop and two request tasks.  A client at one      *)
(* address sends datagrams of every kind the loop and Transaction::handle  *)
(* tell apart by size and magic; recv_from and send_to can fail; builds    *)
(* with and without debug assertions.                                      *)

LoopDatagrams ==
    { Datagram("connect", PROTOCOL_ID, 7, IpA, 5000, len, <<>>) :
        len \in {MIN_PACKET_SIZE - 1, MIN_CONNECT_SIZE} }
    \cup
    { Datagram("connect", "0x0", 7, IpA, 5000, MIN_CONNECT_SIZE, <<>>) }
    \cup
    UNION { { Datagram("announce", id, 8, IpA, 5000, len,
                       AnnounceBody(1, 1, Leeching, 0, 0, 1, -1, 6881)) :
                id \in ClientIds(IpA) } :
            len \in {MIN_PACKET_SIZE - 1, MIN_ANNOUNCE_SIZE - 1, MIN_ANNOUNCE_SIZE} }
    \cup
    UNION { { Datagram("scrape", id, 9, IpA, 5000, len, <<1, 0>>) :
                id \in ClientIds(IpA) } :
            len \in {MIN_SCRAPE_SIZE - 1, MIN_SCRAPE_SIZE} }

InitLoop == InitFrontEnd({TrackUnknown}, BOOLEAN)

\* the steps of request task t
TaskStep(t) ==
    \/ Connect(t)
    \/ Ignore(t)
    \/ Deny(t)
    \/ UdpAnnounce(t)
    \/ LookupSwarm(t)
    \/ ValidateAndSelect(t)
    \/ ApplyAnnounce(t)
    \/ InsertSwarm(t)
    \/ UdpScrape(t)
    \/ ScrapeLock(t)
    \/ ScrapeRead(t)
    \/ ScrapeEnd(t)
    \/ Respond(t)
    \/ SendFails(t)
    \/ Finish(t)

\* the receive loop spawns a task for the next datagram
Dispatch == \E t \in Tasks : \E d \in LoopDatagrams : Receive(t, d)

NextLoop ==
    \/ Dispatch
    \/ \E d \in LoopDatagrams : Drop(d)
    \/ RecvError
    \/ \E t \in Tasks : TaskStep(t)

SpecLoop == InitLoop /\ [][NextLoop]_vars

\* the tokio runtime keeps polling every spawned task and the receive loop,
\* and clients keep sending datagrams
FairLoop ==
    /\ SpecLoop
    /\ \A t \in Tasks : WF_vars(TaskStep(t))
    /\ WF_vars(Dispatch)

---------------------------------------------------------------------------
(* SpecError: one request task; clients at an IPv4 and an IPv6 address     *)
(* connect and announce with the latest connection id or a guessed one,    *)
(* and the announce is refused with an error of every built-in kind or     *)
(* with a Custom error, in builds with and without debug assertions.       *)

ErrorDatagrams ==
    { Datagram("connect", PROTOCOL_ID, 7, ip, 5000, 16, <<>>) : ip \in {IpA, Ip6} }
    \cup
    UNION { { Datagram("announce", id, tid, ip, 5000, 98,
                       AnnounceBody(1, 1, Leeching, 0, 0, 1, -1, 6881)) :
                id \in ClientIds(ip), tid \in {8, 9} } :
            ip \in {IpA, Ip6} }

InitError == InitFrontEnd({TrackUnknown}, BOOLEAN)

NextError ==
    \/ \E d \in ErrorDatagrams : Receive(1, d)
    \/ Connect(1)
    \/ Deny(1)
    \/ \E error \in BuiltInErrors \cup CustomErrors : UdpAnnounceFails(1, error)
    \/ Respond(1)
    \/ Finish(1)

SpecError == InitError /\ [][NextError]_vars

---------------------------------------------------------------------------
(* Announce extensions (BEP 41) and query parameters.  Bytes are numbers   *)
(* 0 .. 255, iterators are the sequences of bytes they have left.          *)

OPTION_TYPE_END == 0
OPTION_TYPE_URLDATA == 2

\* the sizes of QueryParser.key and QueryParser.value
KEY_SIZE == 32
VALUE_SIZE == 256

\* b | 0b10_0000
OrBit6(b) == IF (b \div 32) % 2 = 1 THEN b ELSE b + 32

\* to_digit: the value of a hexadecimal digit
to_digit(b) ==
    IF b \in 48 .. 57 THEN Some(b - 48)
    ELSE IF OrBit6(b) \in 97 .. 102 THEN Some(OrBit6(b) - 97 + 10)
    ELSE None

\* decode_percent_byte: the byte of the two hexadecimal digits the iterator
\* starts with and the iterator after them, or None and the iterator is
\* left as it was
decode_percent_byte(iter) ==
    IF Len(iter) >= 2 /\ is_some(to_digit(iter[1])) /\ is_some(to_digit(iter[2]))
    THEN Some([byte |-> to_digit(iter[1])[1] * 16 + to_digit(iter[2])[1],
               rest |-> SubSeq(iter, 3, Len(iter))])
    ELSE None

\* OptionsIter flattened: the payloads of the URL-data options of a packet
\* from index on, one after the other (index counts from 1)
RECURSIVE UrlData(_, _)
UrlData(packet, index) ==
    IF index > Len(packet) THEN <<>>
    ELSE LET option_type == packet[index] IN
         IF option_type >= OPTION_TYPE_URLDATA
         THEN IF index + 1 > Len(packet) THEN <<>>
              ELSE LET len == packet[index + 1] IN
                   IF len = 0 THEN UrlData(packet, index + 2)
                   ELSE IF index + 1 + len > Len(packet) THEN <<>>
                   ELSE IF option_type = OPTION_TYPE_URLDATA
                        THEN SubSeq(packet, index + 2, index + 1 + len)
                                 \o UrlData(packet, index + 2 + len)
                        ELSE UrlData(packet, index + 2 + len)
         ELSE IF option_type = OPTION_TYPE_END THEN <<>>
         ELSE UrlData(packet, index + 1)

\* the loop of starts_with_announce over the letters expected
RECURSIVE MatchLetters(_, _)
MatchLetters(iter, expected) ==
    IF expected = <<>> THEN [ok |-> TRUE, rest |-> iter]
    ELSE IF iter = <<>> THEN [ok |-> FALSE, rest |-> <<>>]
    ELSE LET d == IF iter[1] = 37 THEN decode_percent_byte(Tail(iter)) ELSE None
             byte == IF is_some(d) THEN d[1].byte ELSE iter[1]
             rest == IF is_some(d) THEN d[1].rest ELSE Tail(iter)
         IN IF byte # expected[1] THEN [ok |-> FALSE, rest |-> rest]
            ELSE MatchLetters(rest, Tail(expected))

\* a match of "/announce" that takes every byte as it is
starts_with_announce_undecoded(iter) ==
    IF Len(iter) >= 9 /\ SubSeq(iter, 1, 9) = <<47, 97, 110, 110, 111, 117, 110, 99, 101>>
    THEN [ok |-> TRUE, rest |-> SubSeq(iter, 10, Len(iter))]
    ELSE [ok |-> FALSE, rest |-> <<>>]

\* starts_with_announce: whether the iterator starts with "/announce", and
\* the iterator after it
starts_with_announce(iter) ==
    IF iter = <<>> \/ iter[1] # 47 THEN [ok |-> FALSE, rest |-> <<>>]
    ELSE MatchLetters(Tail(iter), <<97, 110, 110, 111, 117, 110, 99, 101>>)

\* the names of the recognized fields
Name_info_hash == <<105, 110, 102, 111, 95, 104, 97, 115, 104>>   \* "info_hash"
Name_peer_id == <<112, 101, 101, 114, 95, 105, 100>>   \* "peer_id"
Name_port == <<112, 111, 114, 116>>   \* "port"
Name_uploaded == <<117, 112, 108, 111, 97, 100, 101, 100>>   \* "uploaded"
Name_downloaded == <<100, 111, 119, 110, 108, 111, 97, 100, 101, 100>>   \* "downloaded"
Name_left == <<108, 101, 102, 116>>   \* "left"
Name_event == <<101, 118, 101, 110, 116>>   \* "event"
Name_ip == <<105, 112>>   \* "ip"
Name_numwant == <<110, 117, 109, 119, 97, 110, 116>>   \* "numwant"
Name_key == <<107, 101, 121>>   \* "key"

\* ParseAnnounceParams::with_extension
NoParams ==
    [ info_hash |-> None, peer_id |-> None, port |-> 0, unsafe_ip |-> None,
      uploaded |-> None, downloaded |-> None, left |-> None, event |-> None,
      num_want |-> None, key |-> None ]

\* the value of a sequence of decimal digits
RECURSIVE DecimalValue(_)
DecimalValue(digits) ==
    IF digits = <<>> THEN 0
    ELSE DecimalValue(SubSeq(digits, 1, Len(digits) - 1)) * 10 + (digits[Len(digits)] - 48)

\* str::parse of an integer type with values lo .. hi: an optional sign
\* ('-' for the signed types only) and decimal digits; the values of the
\* model have at most 9 digits
ParseInteger(v, lo, hi) ==
    LET signed == v # <<>> /\ (v[1] = 43 \/ (v[1] = 45 /\ lo < 0))
        digits == IF signed THEN Tail(v) ELSE v
        n == IF v # <<>> /\ v[1] = 45 THEN 0 - DecimalValue(digits) ELSE DecimalValue(digits)
    IN IF digits = <<>> \/ Len(digits) > 9 \/ \E i \in 1 .. Len(digits) : ~(digits[i] \in 48 .. 57)
       THEN None
       ELSE IF n < lo \/ n > hi THEN None ELSE Some(n)

\* str::parse::<IpAddr>, for the two texts of the model
ParseIpAddr(v) ==
    IF v = <<49, 48, 46, 48, 46, 48, 46, 49>> THEN Some(IpA)     \* "10.0.0.1"
    ELSE IF v = <<58, 58, 49>> THEN Some(Ip6)     \* "::1"
    ELSE None

\* the match on the value of event
ParseEventName(v) ==
    IF v = <<115, 116, 97, 114, 116, 101, 100>> THEN "Started"
    ELSE IF v = <<115, 116, 111, 112, 112, 101, 100>> THEN "Stopped"
    ELSE IF v = <<99, 111, 109, 112, 108, 101, 116, 101, 100>> THEN "Completed"
    ELSE "None"

\* a field parsed with str::parse, unless it was declared before
ParsedOnce(params, field, declared, parsed) ==
    IF declared \/ is_none(parsed) THEN Err("InvalidParams")
    ELSE Ok([params EXCEPT ![field] = parsed])

\* ParseAnnounceParams::parse: the parser after a key-value pair, or the
\* error; unknown keys go to the extension's parser (EmptyParamsParser)
ParseParam(params, key, value) ==
    CASE key = Name_info_hash ->
            IF is_some(params.info_hash) \/ Len(value) # 20 THEN Err("InvalidInfoHash")
            ELSE Ok([params EXCEPT !.info_hash = Some(value)])
      [] key = Name_peer_id ->
            IF is_some(params.peer_id) \/ Len(value) # 20 THEN Err("InvalidPeerId")
            ELSE Ok([params EXCEPT !.peer_id = Some(value)])
      [] key = Name_port ->
            IF params.port # 0 \/ Len(value) > 5 \/ value = <<>> THEN Err("InvalidPort")
            ELSE LET port == ParseInteger(value, 0, 65535) IN
                 IF is_none(port) \/ port = Some(0) THEN Err("InvalidPort")
                 ELSE Ok([params EXCEPT !.port = port[1]])
      [] key = Name_uploaded ->
            IF Len(value) > 19 \/ value = <<>> THEN Err("InvalidParams")
            ELSE ParsedOnce(params, "uploaded", is_some(params.uploaded),
                            ParseInteger(value, 0 - 999999999, 999999999))
      [] key = Name_downloaded ->
            IF Len(value) > 19 \/ value = <<>> THEN Err("InvalidParams")
            ELSE ParsedOnce(params, "downloaded", is_some(params.downloaded),
                            ParseInteger(value, 0 - 999999999, 999999999))
      [] key = Name_left ->
            IF Len(value) > 19 \/ value = <<>> THEN Err("InvalidParams")
            ELSE ParsedOnce(params, "left", is_some(params.left),
                            ParseInteger(value, 0 - 999999999, 999999999))
      [] key = Name_event ->
            IF is_some(params.event) THEN Err("InvalidParams")
            ELSE Ok([params EXCEPT !.event = Some(ParseEventName(value))])
      [] key = Name_ip ->
            ParsedOnce(params, "unsafe_ip", is_some(params.unsafe_ip), ParseIpAddr(value))
      [] key = Name_numwant ->
            ParsedOnce(params, "num_want", is_some(params.num_want),
                       ParseInteger(value, 0 - 999999999, 999999999))
      [] key = Name_key ->
            ParsedOnce(params, "key", is_some(params.key), ParseInteger(value, 0, 999999999))
      [] OTHER -> Ok(params)

\* TryInto<(AnnounceParams, T)> for ParseAnnounceParams
TryInto(params) ==
    IF params.port = 0 THEN Err("InvalidPort")
    ELSE IF is_none(params.info_hash) THEN Err("InvalidInfoHash")
    ELSE IF is_none(params.peer_id) THEN Err("InvalidPeerId")
    ELSE Ok([ info_hash |-> params.info_hash[1],
              peer_id |-> params.peer_id[1],
              port |-> params.port,
              unsafe_ip |-> params.unsafe_ip,
              uploaded |-> IF is_some(params.uploaded) THEN params.uploaded[1] ELSE 0,
              downloaded |-> IF is_some(params.downloaded) THEN params.downloaded[1] ELSE 0,
              left |-> IF is_some(params.left) THEN params.left[1] ELSE 2147483647,
              event |-> IF is_some(params.event) THEN params.event[1] ELSE "None",
              num_want |-> IF is_some(params.num_want) THEN params.num_want[1] ELSE 0 - 1,
              key |-> params.key ])

\* parse_extensions returns
Returned(packet, pairs, params, outcome) ==
    [ phase |-> "done", packet |-> packet, input |-> <<>>, key |-> <<>>, value |-> <<>>,
      pairs |-> pairs, params |-> params, outcome |-> outcome ]

\* parse_extensions up to the first call of QueryParser::next
ParseExtensions(packet) ==
    /\ px.phase \in {"idle", "done"}
    /\ px' =
        IF packet = <<>> \/ packet[1] = 0 \/ UrlData(packet, 1) = <<>>
        THEN Returned(packet, <<>>, NoParams, TryInto(NoParams))
        ELSE LET path == starts_with_announce(UrlData(packet, 1)) IN
             IF ~path.ok THEN Returned(packet, <<>>, NoParams, Err("InvalidAnnounceUrl"))
             ELSE IF path.rest = <<>>
                  THEN Returned(packet, <<>>, NoParams, TryInto(NoParams))
             ELSE IF path.rest[1] # 63
                  THEN Returned(packet, <<>>, NoParams, Err("InvalidAnnounceUrl"))
             ELSE [ phase |-> "key", packet |-> packet, input |-> Tail(path.rest),
                    key |-> <<>>, value |-> <<>>, pairs |-> <<>>, params |-> NoParams,
                    outcome |-> Ok(<<>>) ]
    /\ UNCHANGED <<swarms, config, now, pc, req, result, snap, before, epc, enow, swept>>
    /\ UNCHANGED <<wall, dgram, sent, held, debug_assertions, skipped>>

\* QueryParser::next has returned Some((key, value)): the loop of
\* parse_extensions hands the pair to the parser and, unless that fails,
\* calls next again with the rest of the iterator
Yielded(key, value, rest) ==
    LET parsed == ParseParam(px.params, key, value) IN
    IF parsed.ok
    THEN [px EXCEPT !.phase = "key", !.input = rest, !.key = <<>>, !.value = <<>>,
                    !.pairs = Append(@, <<key, value>>), !.params = parsed.val]
    ELSE Returned(px.packet, Append(px.pairs, <<key, value>>), px.params, Err(parsed.err))

\* a byte stored in a buffer that grows without a limit
StoredUnbounded(buffer, byte, size) == Append(buffer, byte)

\* a byte stored in a buffer of the given size, or skipped when it is full
Stored(buffer, byte, size) == IF Len(buffer) >= size THEN buffer ELSE Append(buffer, byte)

\* QueryParser::next, one round of the loop over the key
QueryKey ==
    /\ px.phase = "key"
    /\ px' =
        IF px.input = <<>>
        THEN \* next returns None and parse_extensions ends with try_into
             Returned(px.packet, px.pairs, px.params, TryInto(px.params))
        ELSE LET b == px.input[1]
                 rest == Tail(px.input)
                 d == decode_percent_byte(rest)
             IN IF b = 61 THEN [px EXCEPT !.phase = "value", !.input = rest, !.value = <<>>]
                ELSE IF b = 38 THEN Yielded(px.key, <<>>, rest)
                ELSE IF b = 37 /\ is_some(d)
                     THEN [px EXCEPT !.input = d[1].rest,
                                     !.key = Stored(@, d[1].byte, KEY_SIZE)]
                ELSE [px EXCEPT !.input = rest,
                                !.key = Stored(@, IF b = 43 THEN 32 ELSE b, KEY_SIZE)]
    /\ UNCHANGED <<swarms, config, now, pc, req, result, snap, before, epc, enow, swept>>
    /\ UNCHANGED <<wall, dgram, sent, held, debug_assertions, skipped>>

\* QueryParser::next, one round of the loop over the value
QueryValue ==
    /\ px.phase = "value"
    /\ px' =
        IF px.input = <<>> THEN Yielded(px.key, px.value, <<>>)
        ELSE LET b == px.input[1]
                 rest == Tail(px.input)
                 d == decode_percent_byte(rest)
             IN IF b = 38 THEN Yielded(px.key, px.value, rest)
                ELSE IF b = 37 /\ is_some(d)
                     THEN [px EXCEPT !.input = d[1].rest,
                                     !.value = Stored(@, d[1].byte, VALUE_SIZE)]
                ELSE [px EXCEPT !.input = rest,
                                !.value = Stored(@, IF b = 43 THEN 32 ELSE b, VALUE_SIZE)]
    /\ UNCHANGED <<swarms, config, now, pc, req, result, snap, before, epc, enow, swept>>
    /\ UNCHANGED <<wall, dgram, sent, held, debug_assertions, skipped>>


---------------------------------------------------------------------------
(* SpecParse: parse_extensions with ParseAnnounceParams on announce tails: *)
(* no options, paths that are and are not /announce, queries with every    *)
(* recognized field declared once and twice, and keys and values at and    *)
(* past the sizes of the parser's buffers.                                 *)

\* n times the byte b
Rep(b, n) == [i \in 1 .. n |-> b]

\* one URL-data option
Option(bytes) == <<OPTION_TYPE_URLDATA, Len(bytes)>> \o bytes

\* a URL as URL-data options of at most 255 bytes each
RECURSIVE Options(_)
Options(url) ==
    IF Len(url) <= 255 THEN Option(url)
    ELSE Option(SubSeq(url, 1, 255)) \o Options(SubSeq(url, 256, Len(url)))

\* "/announce?"
AnnounceQuery == <<47, 97, 110, 110, 111, 117, 110, 99, 101, 63>>

\* paths and short queries
Urls ==
    { <<47, 97, 110, 110, 111, 117, 110, 99, 101>>,
      <<47, 97, 110, 110, 111, 117, 110, 99, 101, 63>>,
      <<47, 97, 110, 110, 111, 117, 110, 99, 101, 63, 105, 110, 102, 111, 95, 104, 97, 115, 104, 61, 65, 65, 65, 65, 65, 65, 65, 65, 65, 65, 65, 65, 65, 65, 65, 65, 65, 65, 65, 65, 38, 112, 101, 101, 114, 95, 105, 100, 61, 66, 66, 66, 66, 66, 66, 66, 66, 66, 66, 66, 66, 66, 66, 66, 66, 66, 66, 66, 66, 38, 112, 111, 114, 116, 61, 54, 56, 56, 49, 38, 108, 101, 102, 116, 61, 53, 38, 101, 118, 101, 110, 116, 61, 115, 116, 97, 114, 116, 101, 100, 38, 110, 117, 109, 119, 97, 110, 116, 61, 53, 48, 38, 107, 101, 121, 61, 55, 38, 105, 112, 61, 49, 48, 46, 48, 46, 48, 46, 49, 38, 117, 112, 108, 111, 97, 100, 101, 100, 61, 49, 38, 100, 111, 119, 110, 108, 111, 97, 100, 101, 100, 61, 50, 38, 120, 61, 121>>,
      <<47, 37, 54, 49, 37, 54, 101, 37, 54, 69, 37, 54, 102, 37, 55, 53, 37, 54, 101, 37, 54, 51, 37, 54, 53, 63, 112, 111, 114, 116, 61, 54, 56, 56, 49, 38, 105, 110, 102, 111, 95, 104, 97, 115, 104, 61, 65, 65, 65, 65, 65, 65, 65, 65, 65, 65, 65, 65, 65, 65, 65, 65, 65, 65, 65, 65, 38, 112, 101, 101, 114, 95, 105, 100, 61, 66, 66, 66, 66, 66, 66, 66, 66, 66, 66, 66, 66, 66, 66, 66, 66, 66, 66, 66, 66>>,
      <<47, 97, 110, 110, 111, 117, 110, 99, 101, 120>>,
      <<47, 97, 110, 110, 111, 117, 110, 99, 101, 47>>,
      <<47, 115, 99, 114, 97, 112, 101>>,
      <<37, 50, 70, 97, 110, 110, 111, 117, 110, 99, 101>>,
      <<47, 65, 110, 110, 111, 117, 110, 99, 101>>,
      <<47, 97, 110, 110, 111, 117, 110, 99>>,
      <<47, 37, 52, 49, 110, 110, 111, 117, 110, 99, 101>>,
      <<47, 97, 110, 110, 111, 117, 110, 99, 101, 38, 112, 111, 114, 116, 61, 49>>,
      <<47, 97, 110, 110, 111, 117, 110, 99, 101, 63, 112, 111, 114, 116, 61, 48>>,
      <<47, 97, 110, 110, 111, 117, 110, 99, 101, 63, 112, 111, 114, 116, 61, 43, 56, 48, 38, 108, 101, 102, 116, 61, 45, 49, 38, 107, 101, 121, 61, 45, 49>>,
      <<47, 97, 110, 110, 111, 117, 110, 99, 101, 63, 105, 110, 102, 111, 95, 104, 97, 115, 104, 61, 65, 65, 65, 65, 65, 65, 65, 65, 65, 65, 65, 65, 65, 65, 65, 65, 65, 65, 65>>,
      <<47, 97, 110, 110, 111, 117, 110, 99, 101, 63, 61, 97, 43, 118, 97, 108, 117, 101, 43, 37, 119, 105, 116, 104, 111, 117, 116, 43, 97, 43, 107, 101, 121, 38, 97, 43, 107, 101, 121, 43, 119, 105, 116, 104, 111, 117, 116, 43, 97, 43, 118, 97, 108, 117, 101, 38, 105, 37, 50, 48, 108, 111, 118, 101, 37, 50, 48, 101, 115, 99, 97, 112, 101, 115, 37, 37, 52, 49, 37, 52, 49, 37, 52, 51, 61, 37, 118, 97, 108, 117, 101, 115, 37, 50, 48, 108, 111, 118, 101, 37, 50, 48, 101, 115, 99, 97, 112, 101, 115, 37, 50, 48, 116, 111, 111, 37>> }

\* every recognized field declared twice, before a port
TwiceUrls ==
    {
      <<47, 97, 110, 110, 111, 117, 110, 99, 101, 63, 105, 110, 102, 111, 95, 104, 97, 115, 104, 61, 65, 65, 65, 65, 65, 65, 65, 65, 65, 65, 65, 65, 65, 65, 65, 65, 65, 65, 65, 65, 38, 105, 110, 102, 111, 95, 104, 97, 115, 104, 61, 65, 65, 65, 65, 65, 65, 65, 65, 65, 65, 65, 65, 65, 65, 65, 65, 65, 65, 65, 65, 38, 112, 111, 114, 116, 61, 54, 56, 56, 49>>,
      <<47, 97, 110, 110, 111, 117, 110, 99, 101, 63, 112, 101, 101, 114, 95, 105, 100, 61, 66, 66, 66, 66, 66, 66, 66, 66, 66, 66, 66, 66, 66, 66, 66, 66, 66, 66, 66, 66, 38, 112, 101, 101, 114, 95, 105, 100, 61, 66, 66, 66, 66, 66, 66, 66, 66, 66, 66, 66, 66, 66, 66, 66, 66, 66, 66, 66, 66, 38, 112, 111, 114, 116, 61, 54, 56, 56, 49>>,
      <<47, 97, 110, 110, 111, 117, 110, 99, 101, 63, 112, 111, 114, 116, 61, 54, 56, 56, 49, 38, 112, 111, 114, 116, 61, 54, 56, 56, 49, 38, 108, 101, 102, 116, 61, 53>>,
      <<47, 97, 110, 110, 111, 117, 110, 99, 101, 63, 117, 112, 108, 111, 97, 100, 101, 100, 61, 49, 38, 117, 112, 108, 111, 97, 100, 101, 100, 61, 49, 38, 112, 111, 114, 116, 61, 54, 56, 56, 49>>,
      <<47, 97, 110, 110, 111, 117, 110, 99, 101, 63, 100, 111, 119, 110, 108, 111, 97, 100, 101, 100, 61, 50, 38, 100, 111, 119, 110, 108, 111, 97, 100, 101, 100, 61, 50, 38, 112, 111, 114, 116, 61, 54, 56, 56, 49>>,
      <<47, 97, 110, 110, 111, 117, 110, 99, 101, 63, 108, 101, 102, 116, 61, 53, 38, 108, 101, 102, 116, 61, 53, 38, 112, 111, 114, 116, 61, 54, 56, 56, 49>>,
      <<47, 97, 110, 110, 111, 117, 110, 99, 101, 63, 101, 118, 101, 110, 116, 61, 115, 116, 97, 114, 116, 101, 100, 38, 101, 118, 101, 110, 116, 61, 115, 116, 97, 114, 116, 101, 100, 38, 112, 111, 114, 116, 61, 54, 56, 56, 49>>,
      <<47, 97, 110, 110, 111, 117, 110, 99, 101, 63, 105, 112, 61, 49, 48, 46, 48, 46, 48, 46, 49, 38, 105, 112, 61, 49, 48, 46, 48, 46, 48, 46, 49, 38, 112, 111, 114, 116, 61, 54, 56, 56, 49>>,
      <<47, 97, 110, 110, 111, 117, 110, 99, 101, 63, 110, 117, 109, 119, 97, 110, 116, 61, 53, 48, 38, 110, 117, 109, 119, 97, 110, 116, 61, 53, 48, 38, 112, 111, 114, 116, 61, 54, 56, 56, 49>>,
      <<47, 97, 110, 110, 111, 117, 110, 99, 101, 63, 107, 101, 121, 61, 55, 38, 107, 101, 121, 61, 55, 38, 112, 111, 114, 116, 61, 54, 56, 56, 49>> }

\* queries with a key of n bytes and a value of m bytes around the sizes
\* of the buffers, followed by one more pair, and the same with the key
\* alone before an '&' or the end of the input
LongUrls ==
    { AnnounceQuery \o Rep(107, n) \o <<61>> \o Rep(118, m) \o <<38, 97, 61, 98>> :
        n \in {KEY_SIZE, KEY_SIZE + 1}, m \in {VALUE_SIZE, VALUE_SIZE + 1} }
    \cup
    { AnnounceQuery \o Rep(107, KEY_SIZE + 2) \o <<38, 97, 61, 98>>,
      AnnounceQuery \o <<37, 54, 98>> \o Rep(107, KEY_SIZE) \o <<61>>
          \o Rep(43, VALUE_SIZE) \o <<37, 55, 54, 37>>,
      AnnounceQuery \o <<97, 61, 98, 38>> \o Rep(107, KEY_SIZE + 1) }

\* the bytes after offset 98 of an announce packet
ExtensionTails ==
    { Options(url) : url \in Urls \cup TwiceUrls \cup LongUrls }
    \cup
    { <<>>,
      <<OPTION_TYPE_END>> \o Option(<<47, 115, 99, 114, 97, 112, 101>>),
      <<1, 1, OPTION_TYPE_END>>,
      <<OPTION_TYPE_URLDATA, 10, 47>>,
      <<OPTION_TYPE_URLDATA, 0, 3, 2, 47, 47>> \o Option(<<47, 97, 110, 110, 111, 117, 110, 99, 101>>),
      <<1>> \o Option(<<47, 97, 110, 110>>) \o <<1>> \o Option(<<111, 117, 110, 99, 101, 63, 112, 111, 114, 116, 61, 54, 56, 56, 49>>)
          \o <<OPTION_TYPE_END>> \o Option(<<38, 112, 111, 114, 116, 61, 49>>),
      Option(<<47, 97, 110, 110, 111, 117, 110, 99, 101, 63, 97, 61, 37, 52>>) \o Option(<<49, 38, 98, 61, 37>>) \o Option(<<52>>) }

InitParse == InitWith({TrackUnknown})

NextParse ==
    \/ \E packet \in ExtensionTails : ParseExtensions(packet)
    \/ QueryKey
    \/ QueryValue

SpecParse == InitParse /\ [][NextParse]_vars


---------------------------------------------------------------------------
(* Claims *)

AnnounceOf(t) == req[t].announce

\* task t serves an announce that has been through Swarm::validate
Validated(t) == req[t].op = "announce" /\ is_some(snap[t])

\* task t serves an announce for which Swarm::select has produced a peer list
Selected(t) ==
    /\ req[t].op = "announce"
    /\ pc[t] \in {"swarm_write", "done"}
    /\ result[t].ok
    /\ is_some(result[t].val)

ReplyPeers(t) == result[t].val[1].peers

\* task t's announce has returned Ok
Accepted(t) == req[t].op = "announce" /\ pc[t] = "done" /\ result[t].ok

\* task t's announce has returned an error
Rejected(t) == req[t].op = "announce" /\ pc[t] = "done" /\ ~result[t].ok

\* task t's announce is for a stored peer-id whose stored ip is another one
IpChange(t) ==
    /\ Validated(t)
    /\ AnnounceOf(t).peer_id \in DOMAIN snap[t][1].peers
    /\ snap[t][1].peers[AnnounceOf(t).peer_id].addr.ip # AnnounceOf(t).addr.ip

\* C1: in every swarm the seeder count is the number of stored peers with
\* left = 0 and the leecher count the number of stored peers with left > 0.
CountersMatchPeers ==
    \A h \in DOMAIN swarms :
        /\ swarms[h].complete =
             Cardinality({id \in DOMAIN swarms[h].peers : swarms[h].peers[id].left = 0})
        /\ swarms[h].incomplete =
             Cardinality({id \in DOMAIN swarms[h].peers : swarms[h].peers[id].left > 0})

\* C2: when an announce is about to apply, its swarm is still the one it
\* validated and selected on, and the announce passes the identity check
\* against the record it is about to overwrite.
ConsistentSnapshot ==
    \A t \in Tasks :
        (req[t].op = "announce" /\ pc[t] = "swarm_write") =>
            /\ swarms[AnnounceOf(t).info_hash] = snap[t][1]
            /\ Validate(swarms[AnnounceOf(t).info_hash], AnnounceOf(t)).ok

RejectedLeavesStore ==
    \A t \in Tasks : Rejected(t) => swarms = before[t]

\* a completed announce from another ip with a wrong key has been rejected
RejectedLeavesStoreWitness ==
    \E t \in Tasks :
        /\ Rejected(t)
        /\ result[t].err = "IpAddressChanged"
        /\ AnnounceOf(t).event = "Completed"
        /\ 1 \in DOMAIN swarms
        /\ 1 \in DOMAIN swarms[1].peers

\* C5: after an accepted stopped announce the peer-id is absent; after an
\* accepted none, started or completed announce it is present with the byte
\* counters, endpoint, key and time of that announce.
AnnounceStateMachine ==
    \A t \in Tasks :
        Accepted(t) =>
            LET a == AnnounceOf(t) IN
            /\ a.info_hash \in DOMAIN swarms
            /\ a.event = "Stopped" => a.peer_id \notin DOMAIN swarms[a.info_hash].peers
            /\ a.event \in {"None", "Started", "Completed"} =>
                 /\ a.peer_id \in DOMAIN swarms[a.info_hash].peers
                 /\ LET peer == swarms[a.info_hash].peers[a.peer_id] IN
                    /\ peer.downloaded = a.downloaded
                    /\ peer.uploaded = a.uploaded
                    /\ peer.left = a.left
                    /\ peer.addr = a.addr
                    /\ peer.key = a.key
                    /\ peer.announce = a.instant

\* a stored peer has re-announced later with other byte counters, another
\* endpoint and another key, and the record is the new announce's
AnnounceStateMachineWitness ==
    \E t \in Tasks :
        /\ Accepted(t)
        /\ AnnounceOf(t).event = "None"
        /\ 1 \in DOMAIN before[t]
        /\ AnnounceOf(t).peer_id \in DOMAIN before[t][1].peers
        /\ LET old == before[t][1].peers[AnnounceOf(t).peer_id] IN
           /\ old.addr # AnnounceOf(t).addr
           /\ old.left # AnnounceOf(t).left
           /\ old.announce # AnnounceOf(t).instant

\* C6: with deny_all_ip_changes set, an announce of a stored peer-id from
\* another ip is rejected, also with the stored key.
DenyAllIpChanges ==
    \A t \in Tasks :
        (config.deny_all_ip_changes /\ IpChange(t)) => ~result[t].ok

\* C7: no returned peer is the requester, and a seeder is only given leechers.
SelectExcludesSelfAndSeeders ==
    \A t \in Tasks :
        Selected(t) =>
            \A i \in 1 .. Len(ReplyPeers(t)) :
                /\ ReplyPeers(t)[i].id # AnnounceOf(t).peer_id
                /\ AnnounceOf(t).left = 0 =>
                     snap[t][1].peers[ReplyPeers(t)[i].id].left # 0

\* a stored seeder re-announces while another seeder and a leecher are stored,
\* and gets a peer
SelectExcludesWitness ==
    \E t \in Tasks :
        /\ Selected(t)
        /\ AnnounceOf(t).left = 0
        /\ AnnounceOf(t).peer_id \in DOMAIN snap[t][1].peers
        /\ \E id \in DOMAIN snap[t][1].peers :
              id # AnnounceOf(t).peer_id /\ snap[t][1].peers[id].left = 0
        /\ Len(ReplyPeers(t)) >= 1

\* C8: a requester whose effective address is IPv4, and so every requester
\* whose reply is written in the 6-byte encoding (remote ip IPv4), is only
\* given peers with an IPv4 address.
Ipv4RequesterGetsIpv4 ==
    \A t \in Tasks :
        (Selected(t) /\ (is_ipv4(AnnounceOf(t).addr.ip) \/ is_ipv4(req[t].remote_ip))) =>
            \A i \in 1 .. Len(ReplyPeers(t)) : is_ipv4(ReplyPeers(t)[i].addr.ip)

\* an IPv4 requester gets a peer while an IPv6 leecher is stored
Ipv4RequesterWitness ==
    \E t \in Tasks :
        /\ Selected(t)
        /\ is_ipv4(AnnounceOf(t).addr.ip)
        /\ \E id \in DOMAIN snap[t][1].peers :
              /\ id # AnnounceOf(t).peer_id
              /\ snap[t][1].peers[id].left # 0
              /\ is_ipv6(snap[t][1].peers[id].addr.ip)
        /\ Len(ReplyPeers(t)) >= 1

\* the stored peers that pass the self, seeder and address-family filters
PassFilters(t) ==
    { id \in DOMAIN snap[t][1].peers :
        /\ id # AnnounceOf(t).peer_id
        /\ ~(AnnounceOf(t).left = 0 /\ snap[t][1].peers[id].left = 0)
        /\ ~(is_ipv4(AnnounceOf(t).addr.ip) /\ ~is_ipv4(snap[t][1].peers[id].addr.ip)) }

\* C9: select returns exactly min(n, E) peers, all of them distinct stored
\* peers that pass the filters, n being the clamped num-want and E the number
\* of stored peers that pass the filters.
SelectSize ==
    \A t \in Tasks :
        Selected(t) =>
            /\ Len(ReplyPeers(t)) = Min(AnnounceOf(t).num_want, Cardinality(PassFilters(t)))
            /\ \A i \in 1 .. Len(ReplyPeers(t)) :
                  /\ ReplyPeers(t)[i].id \in PassFilters(t)
                  /\ ReplyPeers(t)[i].addr = snap[t][1].peers[ReplyPeers(t)[i].id].addr
                  /\ \A j \in 1 .. Len(ReplyPeers(t)) :
                        ReplyPeers(t)[i].id = ReplyPeers(t)[j].id => i = j

\* a requester asking for one peer gets one of two eligible peers, the later one
SelectSizeWitness ==
    \E t \in Tasks :
        /\ Selected(t)
        /\ AnnounceOf(t).num_want = 1
        /\ Cardinality(PassFilters(t)) = 2
        /\ Len(ReplyPeers(t)) = 1
        /\ \E id \in PassFilters(t) : id < ReplyPeers(t)[1].id

\* with three other peers stored, one of them a seeder, a seeder asking for
\* the default number of peers gets exactly two
SelectSizeExample ==
    \E t \in Tasks :
        /\ Selected(t)
        /\ AnnounceOf(t).left = 0
        /\ AnnounceOf(t).num_want = DefaultConfig.default_num_want
        /\ Cardinality(DOMAIN snap[t][1].peers \ {AnnounceOf(t).peer_id}) = 3
        /\ Cardinality(PassFilters(t)) = 2
        /\ Len(ReplyPeers(t)) = 2

\* a step puts a fresh swarm under hash h: the lifetime of the swarm stored
\* there, if any, ends
Replaced(h) ==
    \E t \in Tasks :
        /\ pc[t] = "map_write"
        /\ pc'[t] = "done"
        /\ req[t].announce.info_hash = h

InsertedFresh(t) ==
    /\ Accepted(t)
    /\ AnnounceOf(t).event \notin {"Stopped", "Paused"}
    /\ is_none(result[t].val)

\* C11: when two announces of different peers have both gone the new-torrent
\* path for one hash and both have returned, the swarm under that hash holds
\* both peers and its counters count both.
UnknownTorrentRace ==
    \A t \in Tasks : \A u \in Tasks \ {t} :
        ( /\ InsertedFresh(t)
          /\ InsertedFresh(u)
          /\ AnnounceOf(t).info_hash = AnnounceOf(u).info_hash
          /\ AnnounceOf(t).peer_id # AnnounceOf(u).peer_id ) =>
            LET swarm == swarms[AnnounceOf(t).info_hash] IN
            /\ {AnnounceOf(t).peer_id, AnnounceOf(u).peer_id} \subseteq DOMAIN swarm.peers
            /\ swarm.complete + swarm.incomplete = 2

\* task t's announce has passed the port check of Tracker::announce, so
\* req[t].announce is the announce handed to TrackerInner::announce
Handed(t) ==
    /\ req[t].op = "announce"
    /\ ~(pc[t] = "done" /\ ~result[t].ok /\ result[t].err = "InvalidPort")

\* C15: an announce whose port is below 1024 has failed with InvalidPort
\* and the store is as it was when the call began, whatever the torrent,
\* the event and the policy flags.
SystemPortRefused ==
    \A t \in Tasks :
        (req[t].op = "announce" /\ AnnounceOf(t).addr.port < 1024) =>
            /\ pc[t] = "done"
            /\ result[t] = Err("InvalidPort")
            /\ swarms = before[t]

\* a completed announce on port 1023 for a stored peer of a known torrent
\* has been refused
SystemPortRefusedWitness ==
    \E t \in Tasks :
        /\ req[t].op = "announce"
        /\ AnnounceOf(t).addr.port = 1023
        /\ AnnounceOf(t).event = "Completed"
        /\ config.unsafe_honor_ip_param
        /\ AnnounceOf(t).info_hash \in DOMAIN swarms
        /\ AnnounceOf(t).peer_id \in DOMAIN swarms[AnnounceOf(t).info_hash].peers
        /\ pc[t] = "done"

\* C16: the num_want handed on to selection is default_num_want when the
\* requested one is below 0, max_num_want when it is above max_num_want,
\* and the requested one otherwise.
NumWantClamped ==
    \A t \in Tasks :
        Handed(t) =>
            AnnounceOf(t).num_want =
                IF req[t].num_want < 0 THEN config.default_num_want
                ELSE IF req[t].num_want > config.max_num_want THEN config.max_num_want
                ELSE req[t].num_want

\* a request for 129 peers has reached selection with num_want 128
NumWantClampedWitness ==
    \E t \in Tasks :
        /\ Selected(t)
        /\ req[t].num_want = 129
        /\ AnnounceOf(t).num_want = 128
        /\ Len(ReplyPeers(t)) = 1

\* IpA stands for an RFC1918 address, IpB and Ip6 for global ones
IsLocal(ip) == ip = IpA

\* C17: the ip an announce is validated with, and stored with, is the
\* declared ip exactly when one is present and either the unsafe flag is
\* set or the if-local flag is set and the remote ip is local; otherwise it
\* is the remote ip.
EffectiveIp ==
    \A t \in Tasks :
        Handed(t) =>
            LET a == AnnounceOf(t)
                admitted == \/ config.unsafe_honor_ip_param
                            \/ config.honor_ip_param_if_local /\ IsLocal(req[t].remote_ip)
                effective == IF is_some(a.ip_param) /\ admitted
                             THEN a.ip_param[1]
                             ELSE req[t].remote_ip
            IN /\ a.addr.ip = effective
               /\ (Accepted(t) /\ a.event # "Stopped") =>
                     swarms[a.info_hash].peers[a.peer_id].addr.ip = effective

\* C18: with unknown-torrent tracking disabled, an announce for a hash that
\* was not in the map has failed with TorrentNotFound once the map has been
\* looked at, and the map is as it was.
UnknownTorrentRefused ==
    \A t \in Tasks :
        ( /\ Handed(t)
          /\ pc[t] # "map_read"
          /\ ~config.announce_unknown_torrents
          /\ AnnounceOf(t).info_hash \notin DOMAIN before[t] ) =>
            /\ pc[t] = "done"
            /\ result[t] = Err("TorrentNotFound")
            /\ swarms = before[t]
            /\ AnnounceOf(t).info_hash \notin DOMAIN swarms

\* an announce on a valid port has been refused for its torrent
UnknownTorrentRefusedWitness ==
    \E t \in Tasks :
        /\ Handed(t)
        /\ pc[t] = "done"
        /\ ~config.announce_unknown_torrents
        /\ AnnounceOf(t).event = "Completed"
        /\ result[t] = Err("TorrentNotFound")

\* C19: when the announcing peer-id is stored and its last announce is less
\* than min_interval seconds old, the reply carries the swarm's counts and
\* an empty peer list, and the announce is still applied.
ReannounceRateLimit ==
    \A t \in Tasks :
        ( /\ Validated(t)
          /\ result[t].ok
          /\ AnnounceOf(t).event \notin {"Stopped", "Paused"}
          /\ AnnounceOf(t).peer_id \in DOMAIN snap[t][1].peers
          /\ DurationSince(AnnounceOf(t).instant,
                           snap[t][1].peers[AnnounceOf(t).peer_id].announce)
               < config.min_interval ) =>
            /\ is_some(result[t].val)
            /\ result[t].val[1].complete = snap[t][1].complete
            /\ result[t].val[1].incomplete = snap[t][1].incomplete
            /\ result[t].val[1].peers = <<>>
            /\ pc[t] = "done" =>
                 swarms[AnnounceOf(t).info_hash].peers[AnnounceOf(t).peer_id].left
                   = AnnounceOf(t).left

(* C12 *)

\* task t has taken an announce or scrape datagram through the connection
\* id verification of Transaction::handle
Verified(t) ==
    /\ dgram[t] # NoDatagram
    /\ dgram[t].action \in {"announce", "scrape"}
    /\ WellFormed(dgram[t])
    /\ req[t].op \in {"announce", "scrape", "denied"}

\* task t presents the id of the latest connect reply from the remote ip the
\* reply was issued to
PresentsHeld(t) ==
    /\ is_some(held)
    /\ dgram[t].connection_id = held[1].id
    /\ dgram[t].remote_ip = held[1].ip

\* C12: a connection id issued at wall time t to remote ip R passes
\* verification for R at every time in [t, t + 120 s], wherever t falls in
\* its 2-minute window
IssuedIdAccepted ==
    \A t \in Tasks :
        (/\ Verified(t)
         /\ PresentsHeld(t)
         /\ req[t].at \in held[1].at .. held[1].at + 120)
        => req[t].op # "denied"

\* an id issued in the last second of its window is accepted 120 s later
IssuedIdAcceptedWitness ==
    \E t \in Tasks :
        /\ Verified(t)
        /\ PresentsHeld(t)
        /\ held[1].at % 120 = 119
        /\ req[t].at = held[1].at + 120
        /\ req[t].op = "announce"

(* C13 *)

\* the ids verification computes at the time task t was handled
ComputedIds(t) ==
    { make_connection_id(Secret, req[t].at \div 120 - back, ip_to_bytes(dgram[t].remote_ip)) :
        back \in {0, 1} }

\* C13: a connection id is accepted if and only if it equals the id computed
\* from the secret and the canonical remote ip for the current or the
\* preceding 2-minute window; an id issued two or more windows earlier or to
\* another remote ip is rejected, and the source port plays no part
AcceptedIffComputed ==
    \A t \in Tasks :
        Verified(t) =>
            /\ req[t].op # "denied" <=> dgram[t].connection_id \in ComputedIds(t)
            /\ (/\ is_some(held)
                /\ dgram[t].connection_id = held[1].id
                /\ \/ req[t].at \div 120 >= held[1].at \div 120 + 2
                   \/ dgram[t].remote_ip # held[1].ip)
               => req[t].op = "denied"

\* an id is accepted from another source port than the one it was issued to
AcceptedIffComputedWitness ==
    \E t \in Tasks :
        /\ Verified(t)
        /\ PresentsHeld(t)
        /\ dgram[t].addr.port # held[1].addr.port
        /\ req[t].op = "announce"

\* an id issued two windows earlier is rejected
StaleIdRejected ==
    \E t \in Tasks :
        /\ Verified(t)
        /\ PresentsHeld(t)
        /\ req[t].at \div 120 = held[1].at \div 120 + 2
        /\ req[t].op = "denied"

\* an id issued to another remote ip is rejected
ForeignIdRejected ==
    \E t \in Tasks :
        /\ Verified(t)
        /\ is_some(held)
        /\ dgram[t].connection_id = held[1].id
        /\ dgram[t].remote_ip # held[1].ip
        /\ req[t].op = "denied"

\* an id issued to the IPv4-mapped form of an address is accepted from the
\* IPv4 form
MappedSourceAccepted ==
    \E t \in Tasks :
        /\ Verified(t)
        /\ PresentsHeld(t)
        /\ dgram[t].addr.ip # dgram[t].remote_ip
        /\ req[t].op = "announce"

(* C14 *)

\* the error reply to the datagram of task t
ErrorReply(t, error) ==
    [ action |-> 3,
      transaction_id |-> dgram[t].transaction_id,
      message |-> message(error) ]

\* C14: an announce or scrape whose connection id fails verification gets
\* exactly one error reply, "access denied" with the transaction id of the
\* request, and is never passed to the tracker: the store does not change
DeniedGetsAccessDenied ==
    [][ \A t \in Tasks :
          (req[t].op # "denied" /\ req'[t].op = "denied")
          => /\ sent'[t] = <<ErrorReply(t, "AccessDenied")>>
             /\ swarms' = swarms
             /\ snap'[t] = snap[t] ]_vars

\* the same in a build without debug assertions
DeniedGetsAccessDeniedInRelease ==
    [][ \A t \in Tasks :
          (~debug_assertions /\ req[t].op # "denied" /\ req'[t].op = "denied")
          => /\ sent'[t] = <<ErrorReply(t, "AccessDenied")>>
             /\ swarms' = swarms
             /\ snap'[t] = snap[t] ]_vars

(* C20 *)

\* task t has sent the reply to an accepted announce
Replied(t) ==
    /\ Accepted(t)
    /\ dgram[t] # NoDatagram
    /\ sent[t] # <<>>
    /\ sent[t][1].action = 1

\* <<seeders, leechers>> of a swarm
Counts(swarm) == <<swarm.complete, swarm.incomplete>>

\* the counts of the announced swarm as task t read them before applying
\* its announce (an absent swarm counting as empty), and as they are in the
\* store
SwarmCounts(t) ==
    { IF is_some(snap[t]) THEN Counts(snap[t][1]) ELSE Counts(DefaultSwarm),
      Counts(swarms[AnnounceOf(t).info_hash]) }

\* the reply of task t carries the counts of the swarm and no peers
CountsOnly(t) ==
    /\ sent[t][1].peers = <<>>
    /\ <<sent[t][1].seeders, sent[t][1].leechers>> \in SwarmCounts(t)

\* C20: the reply to an accepted announce with event stopped carries the
\* swarm's seeder and leecher counts and an empty peer list, whatever
\* num-want was requested; an announce with num-want 0 likewise
StoppedReturnsCounts ==
    \A t \in Tasks :
        (Replied(t) /\ (AnnounceOf(t).event = "Stopped" \/ req[t].num_want = 0))
        => CountsOnly(t)

\* the half of C20 about num-want 0, for events other than stopped
NumWantZeroReturnsCounts ==
    \A t \in Tasks :
        (Replied(t) /\ AnnounceOf(t).event # "Stopped" /\ req[t].num_want = 0)
        => CountsOnly(t)

\* a stopped announce is answered with an empty peer list
StoppedReturnsNoPeers ==
    \A t \in Tasks :
        (Replied(t) /\ AnnounceOf(t).event = "Stopped") => sent[t][1].peers = <<>>

(* C21 *)

\* task t's scrape has returned
Scraped(t) == req[t].op = "scrape" /\ pc[t] = "done"

\* (seeders, leechers, completions) of info-hash h in a torrent map
ScrapeEntry(map, h) ==
    IF h \in DOMAIN map
    THEN <<map[h].complete, map[h].incomplete, map[h].downloaded>>
    ELSE <<0, 0, 0>>

ScrapeStep(t) ==
    /\ req[t].op = "scrape" \/ req'[t].op = "scrape"
    /\ <<pc[t], req[t], result[t], sent[t]>> # <<pc'[t], req'[t], result'[t], sent'[t]>>

\* C22: scrape is read-only: no step of a scrape, for known or unknown
\* hashes, changes the set of swarms in the map, a peer record or a counter
ScrapeReadOnly ==
    [][ \A t \in Tasks : ScrapeStep(t) => swarms' = swarms ]_vars

\* a scrape of an unknown and a known hash has returned, the unknown hash
\* still not in the map
ScrapeReadOnlyWitness ==
    \E t \in Tasks :
        /\ Scraped(t)
        /\ req[t].info_hashes = <<2, 1>>
        /\ DOMAIN swarms = {1}
        /\ swarms[1].peers # <<>>
        /\ swarms = before[t]

(* C23 *)

\* this step is Swarm::evict on swarm h, called by the eviction pass
EvictStep(h) ==
    /\ epc \in {"evicting", "joining"}
    /\ pc' = pc
    /\ h \in DOMAIN swarms
    /\ swarms'[h] # swarms[h]

\* the peers of a swarm an eviction pass begun at time at with threshold T
\* removes: last announce plus T at or before at; with T = 0, every peer
Expired(swarm, at, T) ==
    { id \in DOMAIN swarm.peers : swarm.peers[id].announce + T <= at \/ T = 0 }

\* Swarm::evict removes the expired peers, keeps the others, and lowers the
\* seeder or leecher count once per removed peer
EvictRemovesExpired ==
    [][ \A h \in DOMAIN swarms :
          EvictStep(h) =>
            LET gone == Expired(swarms[h], enow, config.max_interval) IN
            /\ DOMAIN swarms'[h].peers = (DOMAIN swarms[h].peers) \ gone
            /\ \A id \in DOMAIN swarms'[h].peers : swarms'[h].peers[id] = swarms[h].peers[id]
            /\ swarms'[h].complete = swarms[h].complete
                 - Cardinality({id \in gone : swarms[h].peers[id].left = 0})
            /\ swarms'[h].incomplete = swarms[h].incomplete
                 - Cardinality({id \in gone : swarms[h].peers[id].left # 0})
            /\ swarms'[h].downloaded = swarms[h].downloaded ]_vars

\* with threshold 0, a swarm has 0 seeders and 0 leechers after Swarm::evict
EvictAllLeavesZero ==
    [][ \A h \in DOMAIN swarms :
          (EvictStep(h) /\ config.max_interval = 0)
          => swarms'[h].complete = 0 /\ swarms'[h].incomplete = 0 ]_vars

\* C23: an eviction pass run at time now with threshold T removes from every
\* swarm exactly the peers whose last-announce time plus T is at or before
\* now and keeps every other peer, lowering the seeder or leecher count once
\* per removed peer; with T = 0 every swarm has 0 seeders and 0 leechers
\* after the pass
EvictionPass ==
    [][ \A h \in DOMAIN swarms :
          EvictStep(h) =>
            LET gone == Expired(swarms[h], enow, config.max_interval) IN
            /\ DOMAIN swarms'[h].peers = (DOMAIN swarms[h].peers) \ gone
            /\ swarms'[h].complete = swarms[h].complete
                 - Cardinality({id \in gone : swarms[h].peers[id].left = 0})
            /\ swarms'[h].incomplete = swarms[h].incomplete
                 - Cardinality({id \in gone : swarms[h].peers[id].left # 0})
            /\ config.max_interval = 0
                 => swarms'[h].complete = 0 /\ swarms'[h].incomplete = 0 ]_vars

\* the same when the counts of the swarm matched its peers before the pass
EvictionPassOnMatchingCounts ==
    [][ \A h \in DOMAIN swarms :
          (EvictStep(h) /\ config.max_interval = 0 /\ CountersMatchPeers)
          => swarms'[h].complete = 0 /\ swarms'[h].incomplete = 0 ]_vars

(* C24 *)

\* this step is the end of an eviction pass
PassEnds == epc \in {"evicting", "joining"} /\ epc' = "idle"

\* C24: after an eviction pass has finished, no swarm that the pass left
\* with zero peers remains in the torrent map
EmptySwarmsRemoved ==
    [][ PassEnds => \A h \in DOMAIN swarms' : swarms'[h].peers # <<>> ]_vars

\* no step of the eviction task takes a swarm out of the map
EvictionKeepsEverySwarm ==
    [][ (epc # "idle" /\ pc' = pc) => DOMAIN swarms' = DOMAIN swarms ]_vars

(* C25 *)

\* this step applies the announce of task t to the store
Applies(t) ==
    /\ req[t].op = "announce"
    /\ pc[t] \in {"swarm_write", "map_write"}
    /\ pc'[t] = "done"

\* the swarm of info-hash h in a torrent map, an absent one being empty
SwarmAt(map, h) == IF h \in DOMAIN map THEN map[h] ELSE DefaultSwarm

SameFieldsStored(swarm, a) ==
    /\ a.peer_id \in DOMAIN swarm.peers
    /\ [swarm.peers[a.peer_id] EXCEPT !.announce = a.instant] = PeerOf(a)

\* C26: two successive accepted announces with the same fields and event
\* none leave the seeder and leecher counts after the second equal to the
\* counts after the first
RepeatedAnnounce ==
    [][ \A t \in Tasks :
          LET a == AnnounceOf(t)
              old == SwarmAt(swarms, a.info_hash)
              new == SwarmAt(swarms', a.info_hash)
          IN (Applies(t) /\ a.event = "None" /\ SameFieldsStored(old, a))
             => /\ new.complete = old.complete
                /\ new.incomplete = old.incomplete
                /\ DOMAIN new.peers = DOMAIN old.peers ]_vars

\* the second of two announces with the same fields has been applied
RepeatedAnnounceWitness ==
    \E t \in Tasks :
        /\ Accepted(t)
        /\ AnnounceOf(t).event = "None"
        /\ is_some(snap[t])
        /\ SameFieldsStored(snap[t][1], AnnounceOf(t))
        /\ SameFieldsStored(swarms[AnnounceOf(t).info_hash], AnnounceOf(t))
        /\ swarms[AnnounceOf(t).info_hash].incomplete = 1

(* C27 *)

\* the size in bytes of an announce reply
ReplySize(reply) == 20 + (IF reply.peers = <<>> THEN 0 ELSE reply.peers[1].size * Len(reply.peers))

\* C27: the number of peers written into an announce reply never exceeds
\* 256, for every configured default-num-want and max-num-want and every
\* requested num-want, so the reply never outgrows its buffer of
\* 20 + 18 * 256 bytes
ReplyPeersCapped ==
    \A t \in Tasks :
        /\ Replied(t) => Len(sent[t][1].peers) <= MAX_NUM_WANT
        /\ (req[t].op = "announce" /\ result[t].ok) => pc[t] # "panicked"

\* no announce reply is larger than the buffer it is written into
ReplyFitsBuffer ==
    \A t \in Tasks : Replied(t) => ReplySize(sent[t][1]) <= ANNOUNCE_SIZE

(* C28 *)

\* task t has taken a scrape datagram with a verified connection id into
\* Transaction::scrape
ScrapeHandled(t) ==
    /\ dgram[t] # NoDatagram
    /\ dgram[t].action = "scrape"
    /\ req[t].op = "scrape"

\* the number of 12-byte entries of a scrape reply
ScrapeEntries(reply) == Len(reply.torrents)

\* C28: for a scrape datagram of any accepted length the number of
\* info-hashes taken from the packet never exceeds MAX_SCRAPE_TORRENTS, no
\* byte at or beyond the end of the receive buffer is read, and the reply
\* holds one 12-byte entry per hash taken
ScrapeWithinArrays ==
    \A t \in Tasks :
        ScrapeHandled(t) =>
            /\ Len(req[t].info_hashes) <= MAX_SCRAPE_TORRENTS
            /\ 16 + 20 * SlotsRead(dgram[t]) <= MAX_PACKET_SIZE
            /\ pc[t] # "panicked"
            /\ sent[t] # <<>> =>
                  /\ Len(sent[t]) = 1
                  /\ sent[t][1].action = 2
                  /\ ScrapeEntries(sent[t][1]) = Len(req[t].info_hashes)
                  /\ 8 + 12 * ScrapeEntries(sent[t][1]) <= SCRAPE_SIZE

\* the same for the datagrams that hold at most MAX_SCRAPE_TORRENTS
\* info-hashes before the first zero hash
ScrapeWithinArraysUpToCap ==
    \A t \in Tasks :
        (ScrapeHandled(t) /\ NonZeroRun(dgram[t]) <= MAX_SCRAPE_TORRENTS) =>
            /\ Len(req[t].info_hashes) = NonZeroRun(dgram[t])
            /\ 16 + 20 * SlotsRead(dgram[t]) <= MAX_PACKET_SIZE
            /\ pc[t] # "panicked"
            /\ sent[t] # <<>> =>
                  /\ Len(sent[t]) = 1
                  /\ sent[t][1].action = 2
                  /\ ScrapeEntries(sent[t][1]) = Len(req[t].info_hashes)


---------------------------------------------------------------------------
\* a datagram of one of the undersized kinds: shorter than 16 bytes, a
\* connect without the protocol magic, an announce shorter than 98 bytes or
\* a scrape shorter than 36 bytes
Undersized(x) ==
    \/ x.len < MIN_PACKET_SIZE
    \/ x.action = "connect" /\ x.connection_id # PROTOCOL_ID
    \/ x.action = "announce" /\ x.len < MIN_ANNOUNCE_SIZE
    \/ x.action = "scrape" /\ x.len < MIN_SCRAPE_SIZE

\* the receive loop skips a datagram
Skips == skipped' # skipped /\ skipped' # Some(IoError)

\* task t takes a step
Steps(t) == pc'[t] # pc[t] \/ req'[t] # req[t] \/ sent'[t] # sent[t]

\* C29: an undersized datagram (shorter than 16 bytes, a connect without
\* the magic, an announce shorter than 98 bytes, a scrape shorter than 36
\* bytes) produces no reply of any kind and no change of tracker state: the
\* loop's skip of a datagram changes nothing else, and a task that holds
\* an undersized datagram never sends, never panics and never changes the
\* swarms or the connection id last issued.
UndersizedDropped ==
    [][ /\ Skips =>
            /\ Undersized(skipped'[1])
            /\ UNCHANGED <<swarms, config, now, pc, req, result, dgram, sent, held>>
        /\ \A t \in Tasks :
            (dgram'[t] # NoDatagram /\ Undersized(dgram'[t])) =>
                /\ sent'[t] = <<>>
                /\ pc'[t] \in {"idle", "done"}
                /\ Steps(t) => (swarms' = swarms /\ held' = held /\ sent' = sent)
      ]_vars

\* the loop has skipped a 15-byte datagram and a task has returned from
\* handling a 97-byte announce
UndersizedDroppedWitness ==
    /\ skipped # None
    /\ skipped # Some(IoError)
    /\ skipped[1].len < MIN_PACKET_SIZE
    /\ \E t \in Tasks :
        /\ dgram[t].action = "announce"
        /\ dgram[t].len = MIN_ANNOUNCE_SIZE - 1
        /\ req[t].op = "ignored"
        /\ pc[t] = "done"


---------------------------------------------------------------------------
\* C30: the receive loop outlives every request task: at every moment,
\* so after a task has returned, failed on send_to or panicked and after
\* recv_from has failed, the loop later receives a next datagram and
\* spawns a new task for it.
LoopOutlivesTasks == []<><<Dispatch>>_vars

\* recv_from has failed, one task has panicked and send_to has failed in
\* the other
LoopOutlivesTasksWitness ==
    /\ skipped = Some(IoError)
    /\ \E t, u \in Tasks : pc[t] = "panicked" /\ pc[u] = "unsent"


---------------------------------------------------------------------------
(* C31 *)

\* the bytes of an announce reply: 20 of header and the peer entries
ReplyBytes(reply) ==
    20 + Cardinality({i \in 1 .. Len(reply.peers) : reply.peers[i].size = 6}) * 6
       + Cardinality({i \in 1 .. Len(reply.peers) : reply.peers[i].size = 18}) * 18

\* the peers Tracker::announce handed to task t
HandedPeers(t) ==
    IF is_some(result[t].val) THEN result[t].val[1].peers ELSE <<>>

\* C31: the compact peer encoding of an announce reply is chosen by the
\* requester's ip family alone: the reply with n peers to an IPv4 requester
\* (an IPv4-mapped IPv6 source included) is 20 + 6n bytes of IPv4 entries,
\* and to an IPv6 requester 20 + 18n bytes, an IPv4 peer written as an
\* IPv4-mapped IPv6 address.
EncodingByRequester ==
    \A t \in Tasks :
        Replied(t) =>
            LET reply == sent[t][1]
                peers == HandedPeers(t)
                n == Len(peers)
            IN /\ Len(reply.peers) = n
               /\ IF is_ipv4(dgram[t].addr.ip) \/ is_some(to_ipv4(dgram[t].addr.ip))
                  THEN /\ ReplyBytes(reply) = 20 + 6 * n
                       /\ \A i \in 1 .. n :
                            /\ reply.peers[i].size = 6
                            /\ reply.peers[i].ip = Some(peers[i].addr.ip)
                            /\ is_ipv4(peers[i].addr.ip)
                  ELSE /\ ReplyBytes(reply) = 20 + 18 * n
                       /\ \A i \in 1 .. n :
                            /\ reply.peers[i].size = 18
                            /\ is_ipv6(reply.peers[i].ip)
                            /\ is_ipv4(peers[i].addr.ip) =>
                                 reply.peers[i].ip = to_ipv6_mapped(peers[i].addr.ip)
                            /\ is_ipv6(peers[i].addr.ip) =>
                                 reply.peers[i].ip = peers[i].addr.ip

\* an IPv6 requester has been sent an IPv4 peer and an IPv6 peer, or a
\* requester with an IPv4-mapped source address has been sent a peer
EncodingByRequesterWitness ==
    \E t \in Tasks :
        /\ Replied(t)
        /\ \/ /\ is_ipv6(dgram[t].remote_ip)
              /\ \E i, j \in 1 .. Len(HandedPeers(t)) :
                    /\ is_ipv4(HandedPeers(t)[i].addr.ip)
                    /\ is_ipv6(HandedPeers(t)[j].addr.ip)
           \/ /\ dgram[t].addr.ip = to_ipv6_mapped(IpA)
              /\ HandedPeers(t) # <<>>


---------------------------------------------------------------------------
(* C32 *)

\* the error Transaction::error of task t was called with, if any
Refused(t) == dgram[t] # NoDatagram /\ pc[t] \in {"done", "panicked"} /\ ~result[t].ok

\* printable ASCII
Printable(bytes) == \A i \in 1 .. Len(bytes) : bytes[i] \in 32 .. 126

\* an error reply to the request of task t: action 3, the transaction id
\* of the request, at most 55 bytes of printable ASCII
WellFormedError(t, reply) ==
    /\ reply.action = 3
    /\ reply.transaction_id = dgram[t].transaction_id
    /\ Len(reply.message) <= 55
    /\ Printable(reply.message)

BuiltInErrorReplyWellFormed ==
    \A t \in Tasks :
        (Refused(t) /\ result[t].err \in BuiltInErrors) =>
            /\ \A i \in 1 .. Len(sent[t]) : WellFormedError(t, sent[t][i])
            /\ ErrorFitsBuffer(message(result[t].err))

\* in a build without debug assertions every refusal for a built-in kind is
\* answered with its error reply
BuiltInErrorReplied ==
    \A t \in Tasks :
        (~debug_assertions /\ Refused(t) /\ result[t].err \in BuiltInErrors
            /\ (req[t].op = "denied" \/ sent[t] # <<>>))
        => sent[t] = <<[ action |-> 3, transaction_id |-> dgram[t].transaction_id,
                         message |-> message(result[t].err) ]>>


---------------------------------------------------------------------------
(* C38 *)

\* C38: the two assertions at the start of Transaction::error (message
\* length at most 55; the printable-ASCII check) hold for every message the
\* tracker passes to it, that is for the message of every built-in kind.
BuiltInPassAssertions ==
    \A t \in Tasks :
        (Refused(t) /\ result[t].err \in BuiltInErrors) =>
            ErrorAssertions(message(result[t].err))

\* the length assertion holds for every built-in kind
BuiltInPassLengthAssertion ==
    \A t \in Tasks :
        (Refused(t) /\ result[t].err \in BuiltInErrors) =>
            ErrorLengthAssertion(message(result[t].err))

\* the printable-ASCII assertion fails for every built-in kind: with debug
\* assertions on, no refusal for a built-in kind is ever answered
BuiltInNeverRepliedInDebug ==
    \A t \in Tasks :
        (debug_assertions /\ Refused(t) /\ result[t].err \in BuiltInErrors) =>
            /\ ~ErrorAsciiAssertion(message(result[t].err))
            /\ sent[t] = <<>>


---------------------------------------------------------------------------
(* C33 *)

\* parse_extensions has returned
Parsed == px.phase = "done"

\* the bytes are the letter, or '%' and two hexadecimal digits of its code
WritesLetter(bytes, letter) ==
    \/ bytes = <<letter>>
    \/ /\ Len(bytes) = 3
       /\ bytes[1] = 37
       /\ \E h, l \in 0 .. 15 :
            /\ bytes[2] \in {IF h < 10 THEN 48 + h ELSE 87 + h, IF h < 10 THEN 48 + h ELSE 55 + h}
            /\ bytes[3] \in {IF l < 10 THEN 48 + l ELSE 87 + l, IF l < 10 THEN 48 + l ELSE 55 + l}
            /\ 16 * h + l = letter

\* the first n bytes of url are "/announce", the i-th letter of announce
\* written in w[i] bytes
IsAnnouncePath(url, w, n) ==
    LET letters == <<97, 110, 110, 111, 117, 110, 99, 101>>
        start(i) == 1 + i + 2 * Cardinality({j \in 1 .. i - 1 : w[j] = 3})
    IN /\ n = start(9) - 1
       /\ Len(url) >= n
       /\ url[1] = 47
       /\ \A i \in 1 .. 8 : WritesLetter(SubSeq(url, start(i), start(i) + w[i] - 1), letters[i])

\* url is "/announce" (letters percent-encoded or not) followed by nothing or
\* by '?' and a query
IsAnnounceUrl(url) ==
    \E w \in [1 .. 8 -> {1, 3}] : \E n \in 9 .. 25 :
        /\ IsAnnouncePath(url, w, n)
        /\ Len(url) = n \/ url[n + 1] = 63

\* C33: when the concatenated URL-data payloads of an announce tail are
\* not empty, parsing fails with InvalidAnnounceUrl unless they are
\* "/announce" (each letter of announce percent-encoded or not) followed by
\* nothing or by '?' and a query, and with no other error before the query
\* is read; an empty tail and a tail that starts with type 0 are parsed as
\* a request without extensions.
AnnounceUrlOnly ==
    Parsed =>
        LET url == UrlData(px.packet, 1) IN
        /\ (px.packet = <<>> \/ px.packet[1] = OPTION_TYPE_END \/ url = <<>>) =>
                px.pairs = <<>> /\ px.outcome = TryInto(NoParams)
        /\ url # <<>> =>
                /\ px.outcome = Err("InvalidAnnounceUrl") <=> ~IsAnnounceUrl(url)
                /\ px.outcome.ok => IsAnnounceUrl(url)
                /\ ~IsAnnounceUrl(url) => px.pairs = <<>>

\* a tail whose payloads spell /announce with percent-encoded letters and a
\* query has been parsed into an announce
AnnounceUrlOnlyWitness ==
    /\ Parsed
    /\ px.outcome.ok
    /\ px.packet # <<>>
    /\ \E i \in 1 .. Len(px.packet) : px.packet[i] = 37
    /\ Len(px.pairs) = 3


---------------------------------------------------------------------------
(* C34 *)

\* the names of the recognized fields
Recognized ==
    { Name_info_hash, Name_peer_id, Name_port, Name_uploaded, Name_downloaded,
      Name_left, Name_event, Name_numwant, Name_key, Name_ip }

\* the i-th pair declares a recognized field that an earlier pair declared
SecondDeclaration(pairs, i) ==
    /\ pairs[i][1] \in Recognized
    /\ \E j \in 1 .. i - 1 : pairs[j][1] = pairs[i][1]

\* C34: a second declaration of a recognized field (info_hash, peer_id,
\* port, uploaded, downloaded, left, event, numwant, key, ip) makes the
\* request fail with InvalidParams, and no pair after it is parsed.
SecondDeclarationFails ==
    Parsed =>
        \A i \in 1 .. Len(px.pairs) :
            SecondDeclaration(px.pairs, i) =>
                /\ px.outcome = Err("InvalidParams")
                /\ i = Len(px.pairs)

\* the error of a second declaration is the one of its field, and the
\* first error stops parsing
SecondDeclarationFailsByField ==
    Parsed =>
        \A i \in 1 .. Len(px.pairs) :
            SecondDeclaration(px.pairs, i) =>
                /\ px.outcome =
                     Err(CASE px.pairs[i][1] = Name_info_hash -> "InvalidInfoHash"
                           [] px.pairs[i][1] = Name_peer_id -> "InvalidPeerId"
                           [] px.pairs[i][1] = Name_port -> "InvalidPort"
                           [] OTHER -> "InvalidParams")
                /\ i = Len(px.pairs)
                /\ px.input = <<>>
                /\ px.params.port = (IF px.pairs[i][1] = Name_port THEN 6881 ELSE 0)

---------------------------------------------------------------------------
(* C40 *)

\* the bytes of a key or a value decoded: '+' is a space and '%' with two
\* hexadecimal digits is the byte they write; a long sequence is split where
\* neither of the two bytes before is a '%', so that no escape is cut
RECURSIVE Decoded(_)
Decoded(bytes) ==
    LET n == Len(bytes)
        splits == { i \in 3 .. n : bytes[i - 1] # 37 /\ bytes[i - 2] # 37 /\ 2 * i >= n }
    IN IF n > 8 /\ splits # {}
       THEN LET i == CHOOSE i \in splits : \A j \in splits : i <= j
            IN Decoded(SubSeq(bytes, 1, i - 1)) \o Decoded(SubSeq(bytes, i, n))
       ELSE IF bytes = <<>> THEN <<>>
       ELSE LET d == decode_percent_byte(Tail(bytes)) IN
            IF bytes[1] = 37 /\ is_some(d) THEN <<d[1].byte>> \o Decoded(d[1].rest)
            ELSE <<IF bytes[1] = 43 THEN 32 ELSE bytes[1]>> \o Decoded(Tail(bytes))

\* the pair written between two '&': the key is what comes before the first
\* '=', a key without '=' has an empty value before an '&' and is no pair at
\* the end of the query
WrittenPair(bytes, last) ==
    LET equals == { i \in 1 .. Len(bytes) : bytes[i] = 61 } IN
    IF equals = {} THEN (IF last THEN <<>> ELSE << <<Decoded(bytes), <<>>>> >>)
    ELSE LET i == CHOOSE i \in equals : \A j \in equals : i <= j
         IN << <<Decoded(SubSeq(bytes, 1, i - 1)), Decoded(SubSeq(bytes, i + 1, Len(bytes)))>> >>

\* the pairs written in a query, in full
RECURSIVE WrittenPairs(_)
WrittenPairs(query) ==
    LET ands == { i \in 1 .. Len(query) : query[i] = 38 } IN
    IF ands = {} THEN WrittenPair(query, TRUE)
    ELSE LET i == CHOOSE i \in ands : \A j \in ands : i <= j
         IN WrittenPair(SubSeq(query, 1, i - 1), FALSE)
                \o WrittenPairs(SubSeq(query, i + 1, Len(query)))

\* the first n bytes
Cut(bytes, n) == SubSeq(bytes, 1, IF Len(bytes) < n THEN Len(bytes) ELSE n)

\* what follows "/announce?" in the URL-data of the parsed tail
QueryOf(packet) == Tail(starts_with_announce(UrlData(packet, 1)).rest)

\* the parsed tail has a query
HasQuery(packet) ==
    LET path == starts_with_announce(UrlData(packet, 1)) IN
    /\ packet # <<>>
    /\ packet[1] # OPTION_TYPE_END
    /\ path.ok
    /\ path.rest # <<>>
    /\ path.rest[1] = 63

\* C40: the query parser is lenient: the pairs it yields are the pairs
\* written in the query, in order, each with its decoded key cut to its
\* first 32 bytes and its decoded value cut to its first 256 bytes; a key or
\* a value that is too long is no error of the query parser, and what
\* follows the next '&' is parsed as the following pair. The pairs stop
\* early only when the parameter parser refuses the last one yielded.
LenientQueryParser ==
    (Parsed /\ HasQuery(px.packet)) =>
        LET written == WrittenPairs(QueryOf(px.packet)) IN
        /\ Len(px.pairs) <= Len(written)
        /\ \A i \in 1 .. Len(px.pairs) :
                px.pairs[i] = <<Cut(written[i][1], KEY_SIZE), Cut(written[i][2], VALUE_SIZE)>>
        /\ Len(px.pairs) < Len(written) =>
                /\ px.pairs # <<>>
                /\ ~ParseParam(px.params, px.pairs[Len(px.pairs)][1],
                               px.pairs[Len(px.pairs)][2]).ok
                /\ ~px.outcome.ok

\* a pair written with a key of more than 32 bytes and a value of more than
\* 256 bytes has been yielded cut, and the pair after it as well
LenientQueryParserWitness ==
    /\ Parsed
    /\ HasQuery(px.packet)
    /\ \E i \in 1 .. Len(px.pairs) - 1 :
            LET written == WrittenPairs(QueryOf(px.packet)) IN
            /\ Len(written[i][1]) > KEY_SIZE
            /\ Len(written[i][2]) > VALUE_SIZE
            /\ Len(px.pairs[i][1]) = KEY_SIZE
            /\ Len(px.pairs[i][2]) = VALUE_SIZE
            /\ px.pairs[i + 1] = <<<<97>>, <<98>>>>

---------------------------------------------------------------------------
(* C35 *)

\* an eviction pass is in progress: it waits for or holds the read-lock of
\* the map
InPass == epc # "idle"

\* task t waits for the write-lock of the map to insert a new torrent
WaitsToInsert(t) == pc[t] = "map_write"

\* C35: an eviction pass terminates: started on a map with zero, one or
\* many swarms it finishes and releases the read-lock of the map, and an
\* announce that waits for the write-lock of the map to insert a new
\* torrent eventually proceeds.
EvictionPassTerminates ==
    /\ InPass ~> ~InPass
    /\ WaitsToInsert(1) ~> (pc[1] = "done")

\* the pass with join_all terminates on every map
JoinAllPassTerminates == (epc = "joining") ~> (epc = "idle")

\* the pass with the while loop terminates on the empty map
WhileLoopEndsOnEmptyMap == (epc = "evicting" /\ DOMAIN swarms = {}) ~> (epc = "idle")

\* the pass with the while loop never ends on a map that holds a swarm:
\* no step takes it out of the loop
WhileLoopKeepsTurning ==
    [][(epc = "evicting" /\ DOMAIN swarms # {}) => epc' = "evicting"]_vars

---------------------------------------------------------------------------
(* C36 *)

\* request task t has been called and has not returned
Unfinished(t) == pc[t] \notin {"idle", "done"}

\* request task t waits for the write-lock of the map
WaitsForWrite(t) == pc[t] = "map_write"

\* request task t waits for the read-lock of the map
WaitsForRead(t) == pc[t] \in {"map_read", "scrape_map_read"}

\* request task t cannot take its next step: it waits for the write-lock
\* while the read-lock is held, or for the read-lock behind a writer that
\* waits for the readers to leave (a task never waits for the lock of a swarm while another task
\* is suspended under it)
Blocked(t) ==
    \/ WaitsForWrite(t) /\ MapReaders # {}
    \/ WaitsForRead(t) /\ ~ReadAdmitted

\* the eviction pass waits for the read-lock of the map behind a writer
EvictorBlocked == epc = "map_read" /\ ~ReadAdmitted

\* some unfinished task is not blocked, unless every task has finished
NoTaskSetBlocked ==
    ((\E t \in Tasks : Unfinished(t)) \/ InPass) =>
        \/ \E t \in Tasks : Unfinished(t) /\ ~Blocked(t)
        \/ InPass /\ ~EvictorBlocked

\* C36: the lock discipline is free of deadlock: with announce tasks on the
\* known-torrent and the new-torrent path, scrape tasks and eviction passes
\* on the lock of the map and the locks of the swarms, no reachable state
\* has every unfinished task blocked, and under fair scheduling every task
\* (request task or eviction pass) eventually finishes.
LockDiscipline ==
    /\ []NoTaskSetBlocked
    /\ \A t \in Tasks : Unfinished(t) ~> (pc[t] = "done")
    /\ InPass ~> ~InPass

\* every request task finishes or finds a pass in its while loop
FinishesUnlessWhileLoop ==
    \A t \in Tasks : Unfinished(t) ~> (pc[t] = "done" \/ epc = "evicting")

\* a task that waits for the write-lock of the map while a pass is in its
\* while loop on a map that holds a swarm
WaitsBehindWhileLoop ==
    \E t \in Tasks : WaitsForWrite(t) /\ epc = "evicting" /\ DOMAIN swarms # {}

---------------------------------------------------------------------------
(* C37 *)

\* C37: the seeder count and the leecher count of every swarm are never
\* negative, in every reachable state: after announces with any event,
\* re-announces of a stored leecher with left = 0 followed by its stop or
\* its expiry, and eviction passes.
CountsNeverNegative ==
    \A h \in DOMAIN swarms : swarms[h].complete >= 0 /\ swarms[h].incomplete >= 0

\* the two counts together are the number of stored peers, whatever the
\* counts are one by one
CountsSumToPeers ==
    \A h \in DOMAIN swarms :
        swarms[h].complete + swarms[h].incomplete = Cardinality(DOMAIN swarms[h].peers)

---------------------------------------------------------------------------
(* C39 *)

\* task t's announce returns from the new-torrent path in this step
Inserts(t) == pc[t] = "map_write" /\ pc'[t] = "done"

\* C39: with unknown torrents tracked, when an announce with event none,
\* started or completed for a hash that it did not find in the map returns,
\* it is accepted and the map holds a swarm under that hash with exactly the
\* announcing peer, with (seeders, leechers) = (1, 0) when left = 0 and
\* (0, 1) otherwise, and with completions 1 when the event was completed
\* and 0 otherwise.
FirstAnnounceCreatesSwarm ==
    [][\A t \in Tasks :
        (Inserts(t) /\ AnnounceOf(t).event \in {"None", "Started", "Completed"}) =>
            LET a == AnnounceOf(t) IN
            /\ config.announce_unknown_torrents
            /\ a.info_hash \notin DOMAIN before[t]
            /\ result'[t].ok
            /\ a.info_hash \in DOMAIN swarms'
            /\ DOMAIN swarms'[a.info_hash].peers = {a.peer_id}
            /\ swarms'[a.info_hash].peers[a.peer_id] = PeerOf(a)
            /\ Counts(swarms'[a.info_hash]) = (IF a.left = 0 THEN <<1, 0>> ELSE <<0, 1>>)
            /\ swarms'[a.info_hash].downloaded = (IF a.event = "Completed" THEN 1 ELSE 0)]_vars

\* a seeder's first announce of a torrent, with event completed, has
\* returned and the swarm counts it
FirstAnnounceCreatesSwarmWitness ==
    \E t \in Tasks :
        /\ InsertedFresh(t)
        /\ AnnounceOf(t).event = "Completed"
        /\ AnnounceOf(t).left = 0
        /\ AnnounceOf(t).info_hash \in DOMAIN swarms
        /\ Counts(swarms[AnnounceOf(t).info_hash]) = <<1, 0>>
        /\ swarms[AnnounceOf(t).info_hash].downloaded = 1
        /\ DOMAIN swarms[AnnounceOf(t).info_hash].peers = {AnnounceOf(t).peer_id}

====
